---- MODULE Spec2Model ----
(***************************************************************************)
(* Custodial wallet lifecycle, balance query and transfer orchestration    *)
(* of the IA-shop-agent actions (CREATE_WALLET, CHECK_BALANCE,             *)
(* TRANSFER_MNT, TRANSFER_ERC20) and of walletProvider.get.                *)
(*                                                                         *)
(* Texts, addresses, keys and decimal numbers are sequences of one-        *)
(* character strings; a bigint is its decimal digit sequence without       *)
(* leading zeros.  Every await of a handler is one step of the model, and  *)
(* every collaborator call (cache, chain, memory store) either returns or  *)
(* throws.                                                                 *)
(***************************************************************************)
EXTENDS Integers, Sequences, FiniteSets, TLC

(***************************************************************************)
(* Bounds of the model.                                                    *)
(***************************************************************************)
\* number of handler / provider / lookup invocations in one behaviour
MaxInvocations == 2
\* chain balances are 0, 0.5, 1, ... up to MaxHalves halves of one unit
MaxHalves == 1

(***************************************************************************)
(* Characters and strings.                                                 *)
(***************************************************************************)
Null == << >>

DigitChars == <<"0", "1", "2", "3", "4", "5", "6", "7", "8", "9">>
LowerHexLetters == <<"a", "b", "c", "d", "e", "f">>
UpperHexLetters == <<"A", "B", "C", "D", "E", "F">>
UpperLetters == <<"A", "B", "C", "D", "E", "F", "G", "H", "I", "J", "K", "L", "M",
                  "N", "O", "P", "Q", "R", "S", "T", "U", "V", "W", "X", "Y", "Z">>
LowerLetters == <<"a", "b", "c", "d", "e", "f", "g", "h", "i", "j", "k", "l", "m",
                  "n", "o", "p", "q", "r", "s", "t", "u", "v", "w", "x", "y", "z">>

Range(s) == {s[i] : i \in 1..Len(s)}

IsDigit(c) == c \in Range(DigitChars)
IsHex(c) == c \in Range(DigitChars) \cup Range(LowerHexLetters) \cup Range(UpperHexLetters)
SpaceChars == {" "}

toLowerCaseChar(c) ==
    IF c \in Range(UpperLetters)
    THEN LowerLetters[CHOOSE i \in 1..Len(UpperLetters) : UpperLetters[i] = c]
    ELSE c

toLowerCase(s) == [i \in 1..Len(s) |-> toLowerCaseChar(s[i])]
toUpperCaseChar(c) ==
    IF c \in Range(LowerLetters)
    THEN UpperLetters[CHOOSE i \in 1..Len(LowerLetters) : LowerLetters[i] = c]
    ELSE c

toUpperCase(s) == [i \in 1..Len(s) |-> toUpperCaseChar(s[i])]

Rep(c, n) == [i \in 1..n |-> c]

startsWith(s, prefix) ==
    /\ Len(prefix) <= Len(s)
    /\ SubSeq(s, 1, Len(prefix)) = prefix

\* the last index e >= i - 1 such that s[i..e] are all accepted by the class
RunEnd(s, i, class) ==
    CHOOSE e \in (i - 1)..Len(s) :
        /\ \A j \in i..e : s[j] \in class
        /\ (e = Len(s) \/ s[e + 1] \notin class)

(***************************************************************************)
(* Intent extraction.                                                      *)
(***************************************************************************)
AddrHexLen == 40

\* /0x[a-fA-F0-9]{40}/ matches at position i
AddressAt(text, i) ==
    /\ i + 1 + AddrHexLen <= Len(text)
    /\ text[i] = "0"
    /\ text[i + 1] = "x"
    /\ \A j \in 2..(AddrHexLen + 1) : IsHex(text[i + j])

\* text.match(/0x[a-fA-F0-9]{40}/g): the first match, or null
extractEthereumWalletAddress(text) ==
    IF \E i \in 1..Len(text) : AddressAt(text, i)
    THEN LET i == CHOOSE k \in 1..Len(text) :
                    /\ AddressAt(text, k)
                    /\ \A m \in 1..(k - 1) : ~AddressAt(text, m)
         IN SubSeq(text, i, i + 1 + AddrHexLen)
    ELSE Null

\* /0x[a-fA-F0-9]{40}/i of walletProvider.get: the prefix is matched
\* without regard to case as well
AddressAtIgnoreCase(text, i) ==
    /\ i + 1 + AddrHexLen <= Len(text)
    /\ text[i] = "0"
    /\ toLowerCaseChar(text[i + 1]) = "x"
    /\ \A j \in 2..(AddrHexLen + 1) : IsHex(text[i + j])

addressMatch(text) ==
    IF \E i \in 1..Len(text) : AddressAtIgnoreCase(text, i)
    THEN LET i == CHOOSE k \in 1..Len(text) :
                    /\ AddressAtIgnoreCase(text, k)
                    /\ \A m \in 1..(k - 1) : ~AddressAtIgnoreCase(text, m)
         IN SubSeq(text, i, i + 1 + AddrHexLen)
    ELSE Null

\* /(\d+(\.\d+)?)\s*(SYMBOL)/i anchored at position i: the end of group 1
\* (0 when there is no match at i).  \d+ and the optional fraction are
\* greedy, and giving characters back never produces a match, because the
\* character after them would be a digit or a dot.
AmountEndAt(text, i, symbol) ==
    IF i > Len(text) \/ ~IsDigit(text[i]) THEN 0
    ELSE LET e1 == RunEnd(text, i, Range(DigitChars))
             hasFraction == /\ e1 + 2 <= Len(text)
                            /\ text[e1 + 1] = "."
                            /\ IsDigit(text[e1 + 2])
             e2 == IF hasFraction THEN RunEnd(text, e1 + 2, Range(DigitChars)) ELSE e1
             s == RunEnd(text, e2 + 1, SpaceChars) + 1
         IN IF /\ s + Len(symbol) - 1 <= Len(text)
               /\ toLowerCase(SubSeq(text, s, s + Len(symbol) - 1)) = toLowerCase(symbol)
            THEN e2
            ELSE 0

\* group 1 of the leftmost match, or null
AmountMatch(text, symbol) ==
    IF \E i \in 1..Len(text) : AmountEndAt(text, i, symbol) > 0
    THEN LET i == CHOOSE k \in 1..Len(text) :
                    /\ AmountEndAt(text, k, symbol) > 0
                    /\ \A m \in 1..(k - 1) : AmountEndAt(text, m, symbol) = 0
         IN SubSeq(text, i, AmountEndAt(text, i, symbol))
    ELSE Null

SymMNT == <<"M", "N", "T">>
SymAISHOP == <<"A", "I", "S", "H", "O", "P">>

extractAmount(text) == AmountMatch(text, SymMNT)

\* { amount: match[1], symbol: match[3].toUpperCase() } or null
extractTokenTransferInfo(text) ==
    IF AmountMatch(text, SymAISHOP) = Null
    THEN [amount |-> Null, symbol |-> Null]
    ELSE [amount |-> AmountMatch(text, SymAISHOP), symbol |-> toUpperCase(SymAISHOP)]

(***************************************************************************)
(* Token registry.                                                         *)
(***************************************************************************)
Decimals == 18

TOKENS ==
    [MNT |-> [type |-> "native", symbol |-> SymMNT, decimals |-> Decimals,
              address |-> Null],
     AISHOP |-> [type |-> "erc20", symbol |-> SymAISHOP, decimals |-> Decimals,
                 address |-> <<"0", "x", "0", "E", "0", "2", "6", "4", "9", "D", "b",
                               "4", "d", "1", "A", "a", "8", "c", "2", "0", "2",
                               "a", "A", "4", "4", "E", "A", "9", "9", "e", "3",
                               "6", "0", "6", "d", "1", "2", "a", "2", "1", "b",
                               "1">>]]

isERC20Token(token) == token.type = "erc20"

\* Object.keys(TOKENS): the keys in the order the literal defines them
TokenKeys == <<SymMNT, SymAISHOP>>

\* TOKENS[symbol], undefined for a symbol that is not a key
TokenBySymbol(symbol) ==
    IF symbol = SymMNT THEN TOKENS.MNT
    ELSE IF symbol = SymAISHOP THEN TOKENS.AISHOP
    ELSE [type |-> "undefined", symbol |-> Null, decimals |-> 0, address |-> Null]

(***************************************************************************)
(* Decimal strings and bigints.                                            *)
(***************************************************************************)
DigitVal(c) == (CHOOSE i \in 1..Len(DigitChars) : DigitChars[i] = c) - 1

RECURSIVE StripLeadingZeros(_)
StripLeadingZeros(d) ==
    IF Len(d) > 1 /\ d[1] = "0" THEN StripLeadingZeros(Tail(d)) ELSE d

RECURSIVE StripTrailingZeros(_)
StripTrailingZeros(d) ==
    IF Len(d) > 0 /\ d[Len(d)] = "0"
    THEN StripTrailingZeros(SubSeq(d, 1, Len(d) - 1))
    ELSE d

DotIndex(s) == IF \E i \in 1..Len(s) : s[i] = "."
               THEN CHOOSE i \in 1..Len(s) : s[i] = "."
               ELSE Len(s) + 1

\* viem parseUnits for a literal /\d+(\.\d+)?/ with at most `decimals`
\* fraction digits: integer digits followed by the fraction padded right
PadRight(frac, decimals) ==
    IF Len(frac) >= decimals
    THEN SubSeq(frac, 1, decimals)
    ELSE frac \o Rep("0", decimals - Len(frac))

parseUnits(s, decimals) ==
    LET int == SubSeq(s, 1, DotIndex(s) - 1)
        frac == SubSeq(s, DotIndex(s) + 1, Len(s))
    IN StripLeadingZeros(int \o PadRight(frac, decimals))

parseEther(s) == parseUnits(s, Decimals)

\* viem formatUnits: the last `decimals` digits are the fraction, trailing
\* zeros removed
formatUnits(value, decimals) ==
    LET padded == IF Len(value) <= decimals
                  THEN Rep("0", decimals + 1 - Len(value)) \o value
                  ELSE value
        int == SubSeq(padded, 1, Len(padded) - decimals)
        frac == StripTrailingZeros(SubSeq(padded, Len(padded) - decimals + 1, Len(padded)))
    IN IF frac = Null THEN int ELSE int \o <<".">> \o frac

formatEther(value) == formatUnits(value, Decimals)

\* a < b on bigints
BigLess(a, b) ==
    \/ Len(a) < Len(b)
    \/ /\ Len(a) = Len(b)
       /\ \E i \in 1..Len(a) :
            /\ DigitVal(a[i]) < DigitVal(b[i])
            /\ \A j \in 1..(i - 1) : a[j] = b[j]

RECURSIVE DecStr(_)
DecStr(n) == IF n < 10 THEN <<DigitChars[n + 1]>>
             ELSE DecStr(n \div 10) \o <<DigitChars[(n % 10) + 1]>>

\* the balances the chain can report: k halves of one unit
HalfUnits(k) ==
    parseUnits(DecStr(k \div 2) \o (IF k % 2 = 1 THEN <<".", "5">> ELSE Null), Decimals)

ChainAmounts == {HalfUnits(k) : k \in 0..MaxHalves}

(***************************************************************************)
(* Inputs: callers, one-process configuration and message texts.           *)
(***************************************************************************)
NoUserId == ""
Users == {"u1", "u2"}
Callers == Users \cup {NoUserId}

Procs == {1, 2}

\* "crear wallet"
TextCreate == <<"c", "r", "e", "a", "r", " ", "w", "a", "l", "l", "e", "t">>

\* "enviar 0.5 MNT a 0x1111111111111111111111111111111111111111"
TextSendMNT ==
    <<"e", "n", "v", "i", "a", "r", " ", "0", ".", "5", " ", "M", "N", "T", " ",
      "a", " ", "0", "x">> \o Rep("1", AddrHexLen)

\* "send 0.5 aishop to 0xAAAAAAAAAAAAAAAAAAAAaaaaaaaaaaaaaaaaaaaa"
TextSendAISHOP ==
    <<"s", "e", "n", "d", " ", "0", ".", "5", " ", "a", "i", "s", "h", "o", "p",
      " ", "t", "o", " ", "0", "x">> \o Rep("A", 20) \o Rep("a", 20)

Texts == {TextCreate, TextSendMNT, TextSendAISHOP}

Flows == {"CREATE_WALLET", "CHECK_BALANCE", "TRANSFER_MNT", "TRANSFER_ERC20",
          "PROVIDER"}
Handlers == {"CREATE_WALLET", "CHECK_BALANCE", "TRANSFER_MNT", "TRANSFER_ERC20"}

(***************************************************************************)
(* Keys and accounts (viem/accounts).  The n-th generated key is a fresh   *)
(* value; the address is an injective function of the key and is in the    *)
(* mixed-case checksummed form.                                            *)
(***************************************************************************)
\* every call returns the same key
generatePrivateKey_sameKey(n) == <<"0", "x", "a", "a">>

generatePrivateKey(n) ==
    <<"0", "x", LowerHexLetters[((n - 1) % 6) + 1],
      LowerHexLetters[(((n - 1) \div 6) % 6) + 1]>>

privateKeyToAccount(privateKey) ==
    [address |-> <<"0", "x">> \o Rep(toUpperCaseChar(privateKey[3]), 20)
                              \o Rep(privateKey[4], 20),
     privateKey |-> privateKey]

(***************************************************************************)
(* State.                                                                  *)
(***************************************************************************)
VARIABLES
    cache,          \* agent.cacheManager: [user_wallet, address_to_user]
    memories,       \* agent.documentsManager: the InteractionRecords
    chainTxs,       \* the transactions submitted to the chain
    settings,       \* runtime.getSetting: is EVM_PRIVATE_KEY set
    inv,            \* the invocation in flight of every process
    started,        \* invocations started so far (also the clock)
    keysGenerated,  \* calls of generatePrivateKey so far
    savedOk,        \* <<userId, address>> of every saveUserWallet that returned true
    prov,           \* per user, the completed provisioning invocations
    oneAtATime      \* does the host runtime run one flow at a time

vars == <<cache, memories, chainTxs, settings, inv, started, keysGenerated,
          savedOk, prov, oneAtATime>>

NullWallet == [address |-> Null, privateKey |-> Null]
NullWalletData == [address |-> Null, privateKey |-> Null, createdAt |-> 0]
NoBalances == [MNT |-> Null, AISHOP |-> Null]

IdleInv ==
    [flow |-> "idle", pc |-> "idle", id |-> 0, userId |-> NoUserId, text |-> Null,
     address |-> Null, walletData |-> NullWalletData, provider |-> NullWallet,
     to |-> Null, amountStr |-> Null, value |-> Null, balance |-> Null,
     txsBefore |-> 0, txHash |-> 0,
     receipt |-> "", balances |-> NoBalances, expected |-> {},
     replies |-> << >>, trace |-> << >>, returned |-> "pending",
     resolved |-> NoUserId, evaluated |-> {}, accepted |-> {}]

\* a user-facing text, by its template and the values interpolated into it
ReplyOf(kind) ==
    [kind |-> kind, address |-> Null, held |-> Null, requested |-> Null,
     symbol |-> Null, to |-> Null, balances |-> NoBalances, txHash |-> 0,
     status |-> "", lines |-> << >>]

Call(s, op, ok) ==
    [s EXCEPT !.trace = Append(@, [op |-> op, ok |-> ok, note |-> ""])]

\* callback?.({ text }, [])
Say(s, reply) ==
    [s EXCEPT !.replies = Append(@, reply),
              !.trace = Append(@, [op |-> "callback", ok |-> TRUE, note |-> reply.kind])]

Return(s, value) == [s EXCEPT !.returned = value, !.pc = "done"]

Goto(s, pc) == [s EXCEPT !.pc = pc]

\* the error leaves the handler
HandlerCatch_rethrow(s) == Return(s, "threw")

\* the catch block reports success
HandlerCatch_returnsTrue(s) == Return(Say(s, ReplyOf("Error")), "true")

\* the catch block that closes every handler
HandlerCatch(s) == Return(Say(s, ReplyOf("Error")), "false")

\* the identity check comes after the wallet lookup
IdentityMissing_afterLookup(s) ==
    Return(Say(Call(s, "cache.get", TRUE), ReplyOf("IdentityMissing")), "false")

\* if (!userId) { callback(...); return false; }
IdentityMissing(s) == Return(Say(s, ReplyOf("IdentityMissing")), "false")

(***************************************************************************)
(* Wallet Store (createWallet.ts).                                         *)
(***************************************************************************)
CacheHas(prefix, key) == key \in DOMAIN cache[prefix]

\* a value as the cache returns it: the JSON text of a record ("string"),
\* the record itself ("object"), or a text that is not JSON ("garbled")
JSONstringify(data) == [type |-> "string", json |-> data]
JSONparse(str) == str.json
typeofString(value) == value.type \in {"string", "garbled"}
JSONparseThrows(str) == str.type = "garbled"

\* the answer is whether the lookup succeeded, not what it found
userHasWallet_ignoresValue(userId, ok) == ok

\* the lookup reads a key that is never written
userHasWallet_wrongKey(userId, ok) ==
    IF ok THEN CacheHas("user_wallet", NoUserId) ELSE FALSE

\* a failed lookup is taken for an existing wallet
userHasWallet_trueOnError(userId, ok) ==
    IF ok THEN CacheHas("user_wallet", userId) ELSE TRUE

\* userHasWallet: !!value, false when the lookup throws
userHasWallet(userId, ok) ==
    IF ok THEN CacheHas("user_wallet", userId) ELSE FALSE

\* a structured value is decoded like a text
getUserWallet_stringOnly(userId, ok) ==
    IF ~ok \/ ~CacheHas("user_wallet", userId) THEN NullWallet
    ELSE LET walletData == cache.user_wallet[userId]
         IN IF walletData.type # "string" THEN NullWallet
            ELSE [address |-> JSONparse(walletData).address,
                  privateKey |-> JSONparse(walletData).privateKey]

\* getUserWallet: the record, null when absent, when the lookup throws or
\* when JSON.parse throws
getUserWallet(userId, ok) ==
    IF ~ok \/ ~CacheHas("user_wallet", userId) THEN NullWallet
    ELSE LET walletData == cache.user_wallet[userId]
         IN IF typeofString(walletData) /\ JSONparseThrows(walletData)
            THEN NullWallet
            ELSE LET parsedData == IF typeofString(walletData)
                                   THEN JSONparse(walletData)
                                   ELSE walletData.json
                 IN [address |-> parsedData.address,
                     privateKey |-> parsedData.privateKey]

\* the reverse entry is written under the lower-case address
ReverseKey_lowerCase(walletData) == toLowerCase(walletData.address)

\* the key of the reverse index entry written by saveUserWallet
ReverseKey(walletData) == walletData.address

\* the key getUserIdByAddress reads
LookupKey(address) == address

\* getUserIdByAddress: the user id, null when absent or when the lookup throws
getUserIdByAddress(address, ok) ==
    IF ok /\ CacheHas("address_to_user", LookupKey(address))
    THEN cache.address_to_user[LookupKey(address)]
    ELSE NoUserId

\* the 0x prefix is added to every key
initUserWalletProvider_alwaysPrefix(userId, ok) ==
    LET userWallet == getUserWallet(userId, ok)
    IN IF userWallet = NullWallet THEN NullWallet
       ELSE privateKeyToAccount(<<"0", "x">> \o userWallet.privateKey)

\* initUserWalletProvider: a session bound to the stored key, or null
initUserWalletProvider(userId, ok) ==
    LET userWallet == getUserWallet(userId, ok)
    IN IF userWallet = NullWallet THEN NullWallet
       ELSE LET normalizedKey == IF startsWith(userWallet.privateKey, <<"0", "x">>)
                                 THEN userWallet.privateKey
                                 ELSE <<"0", "x">> \o userWallet.privateKey
            IN privateKeyToAccount(normalizedKey)

\* the session is built without looking at the setting
initWalletProvider_noCheck == TRUE

\* initWalletProvider: the process-level session, null without EVM_PRIVATE_KEY
initWalletProvider == settings.EVM_PRIVATE_KEY

(***************************************************************************)
(* Initial state and dispatch.                                             *)
(***************************************************************************)
Init ==
    /\ cache = [user_wallet |-> << >>, address_to_user |-> << >>]
    /\ memories = << >>
    /\ chainTxs = << >>
    /\ settings \in {[EVM_PRIVATE_KEY |-> b] : b \in BOOLEAN}
    /\ inv = [p \in Procs |-> IdleInv]
    /\ started = 0
    /\ keysGenerated = 0
    /\ savedOk = {}
    /\ prov = [u \in Users |-> << >>]
    /\ oneAtATime \in BOOLEAN

UpdateInv(p, s) == inv' = [inv EXCEPT ![p] = s]

AllIdle == \A q \in Procs : inv[q].pc = "idle"

\* a process takes a message when it is idle; under one-flow-at-a-time
\* dispatch only when no flow is running at all
CanStart(p) ==
    /\ inv[p].pc = "idle"
    /\ started < MaxInvocations
    /\ oneAtATime => (AllIdle /\ p = 1)

NewInv(flow, userId, text) ==
    [IdleInv EXCEPT !.flow = flow, !.id = started + 1, !.userId = userId,
                    !.text = text]

(***************************************************************************)
(* CREATE_WALLET (createWalletAction.handler).                             *)
(***************************************************************************)
\* memory.userId || state?.userId, then the first await
CW_Start(p, userId) ==
    /\ CanStart(p)
    /\ started' = started + 1
    /\ LET s == NewInv("CREATE_WALLET", userId, Null)
       IN UpdateInv(p, IF userId = NoUserId THEN IdentityMissing(s)
                       ELSE Goto(s, "cw_userHasWallet"))
    /\ UNCHANGED <<cache, memories, chainTxs, settings, keysGenerated, savedOk, prov, oneAtATime>>

\* const hasWallet = await userHasWallet(agent, userId); on the absent
\* branch the key is generated before the next await
CW_userHasWallet(p, ok) ==
    /\ inv[p].pc = "cw_userHasWallet"
    /\ LET s == Call(inv[p], "cache.get", ok)
           hasWallet == userHasWallet(s.userId, ok)
           privateKey == generatePrivateKey(keysGenerated + 1)
           account == privateKeyToAccount(privateKey)
           walletData == [address |-> account.address, privateKey |-> privateKey,
                          createdAt |-> started]
       IN IF hasWallet
          THEN /\ UpdateInv(p, Goto(s, "cw_getUserWallet"))
               /\ UNCHANGED keysGenerated
          ELSE /\ UpdateInv(p, Goto([Call(Say(s, ReplyOf("Creating")),
                                         "generatePrivateKey", TRUE)
                                      EXCEPT !.walletData = walletData],
                                    "cw_setForward"))
               /\ keysGenerated' = keysGenerated + 1
    /\ UNCHANGED <<cache, memories, chainTxs, settings, started, savedOk, prov, oneAtATime>>

\* const wallet = await getUserWallet(agent, userId)
CW_getUserWallet(p, ok) ==
    /\ inv[p].pc = "cw_getUserWallet"
    /\ LET s == Call(inv[p], "cache.get", ok)
           wallet == getUserWallet(s.userId, ok)
       IN UpdateInv(p, IF wallet = NullWallet
                       THEN Return(Say(s, ReplyOf("WalletUnreadable")), "false")
                       ELSE Return(Say(s, [ReplyOf("AlreadyHasWallet")
                                           EXCEPT !.address = wallet.address]),
                                   "true"))
    /\ UNCHANGED <<cache, memories, chainTxs, settings, started, keysGenerated,
                   savedOk, prov, oneAtATime>>

\* the result of saveUserWallet is not looked at
SaveFailed_ignored(s) == Goto(s, "cw_createMemory")

\* if (!saved) { callback(...); return false; }
SaveFailed(s) == Return(Say(s, ReplyOf("SaveFailed")), "false")

\* saveUserWallet refuses to write over a stored record
CW_setForward_keepsExisting(p, ok) ==
    /\ inv[p].pc = "cw_setForward"
    /\ LET s == Call(inv[p], "cache.set", ok)
       IN IF ok /\ ~CacheHas("user_wallet", s.userId)
          THEN /\ cache' = [cache EXCEPT !.user_wallet =
                               [u \in DOMAIN @ \cup {s.userId} |->
                                   IF u = s.userId THEN JSONstringify(s.walletData)
                                   ELSE @[u]]]
               /\ UpdateInv(p, Goto(s, "cw_setReverse"))
          ELSE /\ UpdateInv(p, SaveFailed(s))
               /\ UNCHANGED cache
    /\ UNCHANGED <<memories, chainTxs, settings, started, keysGenerated, savedOk, prov, oneAtATime>>

\* saveUserWallet, first write: cache.set(`user_wallet:${userId}`, JSON)
CW_setForward(p, ok) ==
    /\ inv[p].pc = "cw_setForward"
    /\ LET s == Call(inv[p], "cache.set", ok)
       IN IF ok
          THEN /\ cache' = [cache EXCEPT !.user_wallet =
                               [u \in DOMAIN @ \cup {s.userId} |->
                                   IF u = s.userId THEN JSONstringify(s.walletData)
                                   ELSE @[u]]]
               /\ UpdateInv(p, Goto(s, "cw_setReverse"))
          ELSE /\ UpdateInv(p, SaveFailed(s))
               /\ UNCHANGED cache
    /\ UNCHANGED <<memories, chainTxs, settings, started, keysGenerated, savedOk, prov, oneAtATime>>

\* a failed second write removes the forward record again
CW_setReverse_rollsBack(p, ok) ==
    /\ inv[p].pc = "cw_setReverse"
    /\ LET s == Call(inv[p], "cache.set", ok)
           key == ReverseKey(s.walletData)
       IN IF ok
          THEN /\ cache' = [cache EXCEPT !.address_to_user =
                               [a \in DOMAIN @ \cup {key} |->
                                   IF a = key THEN s.userId ELSE @[a]]]
               /\ savedOk' = savedOk \cup {<<s.userId, s.walletData.address>>}
               /\ UpdateInv(p, Goto(s, "cw_createMemory"))
          ELSE /\ UpdateInv(p, SaveFailed(s))
               /\ cache' = [cache EXCEPT !.user_wallet =
                               [u \in DOMAIN @ \ {s.userId} |-> @[u]]]
               /\ UNCHANGED savedOk
    /\ UNCHANGED <<memories, chainTxs, settings, started, keysGenerated, prov, oneAtATime>>

\* saveUserWallet, second write: cache.set(`address_to_user:${address}`, userId)
CW_setReverse(p, ok) ==
    /\ inv[p].pc = "cw_setReverse"
    /\ LET s == Call(inv[p], "cache.set", ok)
           key == ReverseKey(s.walletData)
       IN IF ok
          THEN /\ cache' = [cache EXCEPT !.address_to_user =
                               [a \in DOMAIN @ \cup {key} |->
                                   IF a = key THEN s.userId ELSE @[a]]]
               /\ savedOk' = savedOk \cup {<<s.userId, s.walletData.address>>}
               /\ UpdateInv(p, Goto(s, "cw_createMemory"))
          ELSE /\ UpdateInv(p, SaveFailed(s))
               /\ UNCHANGED <<cache, savedOk>>
    /\ UNCHANGED <<memories, chainTxs, settings, started, keysGenerated, prov, oneAtATime>>

\* generateId(): a fresh identifier
generateId == Len(memories) + 1

NewMemory(s, action, payload) ==
    [id |-> generateId, inv |-> s.id, userId |-> s.userId, action |-> action,
     payload |-> payload, address |-> Null, balances |-> NoBalances,
     transaction |-> [hash |-> 0, from |-> Null, to |-> Null, amount |-> Null,
                      token |-> Null, status |-> ""]]

\* await agent.documentsManager.createMemory(...), then the success reply
CW_createMemory(p, ok) ==
    /\ inv[p].pc = "cw_createMemory"
    /\ LET s == Call(inv[p], "createMemory", ok)
       IN IF ok
          THEN /\ memories' = Append(memories,
                                [NewMemory(s, "CREATE_WALLET", "walletAddress")
                                 EXCEPT !.address = s.walletData.address])
               /\ UpdateInv(p, Return(Say(s, [ReplyOf("WalletCreated")
                                              EXCEPT !.address = s.walletData.address]),
                                      "true"))
          ELSE /\ UpdateInv(p, HandlerCatch(s))
               /\ UNCHANGED memories
    /\ UNCHANGED <<cache, chainTxs, settings, started, keysGenerated, savedOk, prov, oneAtATime>>

CreateWallet(p) ==
    \/ \E userId \in Callers : CW_Start(p, userId)
    \/ \E ok \in BOOLEAN : CW_userHasWallet(p, ok)
    \/ \E ok \in BOOLEAN : CW_getUserWallet(p, ok)
    \/ \E ok \in BOOLEAN : CW_setForward(p, ok)
    \/ \E ok \in BOOLEAN : CW_setReverse(p, ok)
    \/ \E ok \in BOOLEAN : CW_createMemory(p, ok)

(***************************************************************************)
(* The chain, as the handlers see it.                                      *)
(***************************************************************************)
ReceiptStatuses == {"success", "reverted"}

NewTx(s, kind, from, to, value) ==
    [hash |-> Len(chainTxs) + 1, kind |-> kind, from |-> from, to |-> to,
     value |-> value, inv |-> s.id]

\* the failed broadcast is attempted once more
BroadcastFailed_retry(s) ==
    IF Cardinality({i \in 1..Len(s.trace) :
                        s.trace[i].op \in {"sendTransaction", "writeContract"}}) < 2
    THEN s
    ELSE HandlerCatch(s)

\* sendTransaction / writeContract threw: the handler's catch block, no retry
BroadcastFailed(s) == HandlerCatch(s)

\* the preflight check rejects every amount
InsufficientBalance_always(balance, value) == TRUE

\* the comparison is the wrong way round
InsufficientBalance_reversed(balance, value) == BigLess(value, balance)

\* currentBalance < value, tokenBalance < amountInSmallestUnit
InsufficientBalance(balance, value) == BigLess(balance, value)

(***************************************************************************)
(* TRANSFER_MNT (transferMNTAction.handler).                               *)
(***************************************************************************)
TM_Start(p, userId, text) ==
    /\ CanStart(p)
    /\ started' = started + 1
    /\ LET s == NewInv("TRANSFER_MNT", userId, text)
       IN UpdateInv(p, IF userId = NoUserId THEN IdentityMissing(s)
                       ELSE Goto(s, "tm_userHasWallet"))
    /\ UNCHANGED <<cache, memories, chainTxs, settings, keysGenerated, savedOk, prov, oneAtATime>>

\* const hasWallet = await userHasWallet(agent, userId)
TM_userHasWallet(p, ok) ==
    /\ inv[p].pc = "tm_userHasWallet"
    /\ LET s == Call(inv[p], "cache.get", ok)
       IN UpdateInv(p, IF ~userHasWallet(s.userId, ok)
                       THEN Return(Say(s, ReplyOf("NeedWallet")), "false")
                       ELSE Goto(s, "tm_initUserWalletProvider"))
    /\ UNCHANGED <<cache, memories, chainTxs, settings, started, keysGenerated,
                   savedOk, prov, oneAtATime>>

\* the parsed transfer goes straight to the broadcast
TM_ParseIntent_skipsPreflight(s) ==
    LET to == extractEthereumWalletAddress(s.text)
        amountStr == extractAmount(s.text)
    IN IF to = Null THEN Return(Say(s, ReplyOf("NoAddress")), "false")
       ELSE IF amountStr = Null THEN Return(Say(s, ReplyOf("NoAmount")), "false")
       ELSE Goto([s EXCEPT !.to = to, !.amountStr = amountStr,
                           !.value = parseEther(amountStr)],
                 "tm_sendTransaction")

\* the synchronous part between the session and the balance read:
\* destination, amount, parseEther
TM_ParseIntent(s) ==
    LET to == extractEthereumWalletAddress(s.text)
        amountStr == extractAmount(s.text)
    IN IF to = Null THEN Return(Say(s, ReplyOf("NoAddress")), "false")
       ELSE IF amountStr = Null THEN Return(Say(s, ReplyOf("NoAmount")), "false")
       ELSE Goto([s EXCEPT !.to = to, !.amountStr = amountStr,
                           !.value = parseEther(amountStr)],
                 "tm_getBalance")

\* opening the session writes the reverse entry of the wallet it read
TM_initUserWalletProvider_writesIndex(p, ok) ==
    /\ inv[p].pc = "tm_initUserWalletProvider"
    /\ LET s == Call(inv[p], "cache.get", ok)
           userWalletProvider == initUserWalletProvider(s.userId, ok)
       IN /\ UpdateInv(p, IF userWalletProvider = NullWallet
                          THEN Return(Say(s, ReplyOf("WalletAccessFailed")), "false")
                          ELSE TM_ParseIntent([s EXCEPT !.provider = userWalletProvider]))
          /\ cache' = IF userWalletProvider = NullWallet THEN cache
                      ELSE [cache EXCEPT !.address_to_user =
                               [a \in DOMAIN @ \cup {toLowerCase(userWalletProvider.address)} |->
                                   IF a = toLowerCase(userWalletProvider.address)
                                   THEN s.userId ELSE @[a]]]
    /\ UNCHANGED <<memories, chainTxs, settings, started, keysGenerated,
                   savedOk, prov, oneAtATime>>

\* const userWalletProvider = await initUserWalletProvider(agent, userId)
TM_initUserWalletProvider(p, ok) ==
    /\ inv[p].pc = "tm_initUserWalletProvider"
    /\ LET s == Call(inv[p], "cache.get", ok)
           userWalletProvider == initUserWalletProvider(s.userId, ok)
       IN UpdateInv(p, IF userWalletProvider = NullWallet
                       THEN Return(Say(s, ReplyOf("WalletAccessFailed")), "false")
                       ELSE TM_ParseIntent([s EXCEPT !.provider = userWalletProvider]))
    /\ UNCHANGED <<cache, memories, chainTxs, settings, started, keysGenerated,
                   savedOk, prov, oneAtATime>>

\* const currentBalance = await publicClient.getBalance({ address: fromAddress })
TM_getBalance(p, ok, currentBalance) ==
    /\ inv[p].pc = "tm_getBalance"
    /\ LET s == [Call(inv[p], "getBalance", ok)
                  EXCEPT !.balance = IF ok THEN currentBalance ELSE Null,
                         !.txsBefore = Len(chainTxs)]
       IN UpdateInv(p,
            IF ~ok THEN HandlerCatch(s)
            ELSE IF InsufficientBalance(currentBalance, s.value)
            THEN Return(Say(s, [ReplyOf("InsufficientBalance")
                                EXCEPT !.held = formatEther(currentBalance),
                                       !.requested = s.amountStr,
                                       !.symbol = SymMNT]),
                        "false")
            ELSE Goto(Say(s, [ReplyOf("Processing")
                              EXCEPT !.requested = s.amountStr,
                                     !.address = s.provider.address,
                                     !.to = s.to]),
                      "tm_sendTransaction"))
    /\ UNCHANGED <<cache, memories, chainTxs, settings, started, keysGenerated,
                   savedOk, prov, oneAtATime>>

\* const txHash = await walletClient.sendTransaction({ to, value, ... })
TM_sendTransaction(p, ok) ==
    /\ inv[p].pc = "tm_sendTransaction"
    /\ LET s == Call(inv[p], "sendTransaction", ok)
           tx == NewTx(s, "native", s.provider.address, s.to, s.value)
       IN IF ok
          THEN /\ chainTxs' = Append(chainTxs, tx)
               /\ UpdateInv(p, Goto([s EXCEPT !.txHash = tx.hash],
                                    "tm_waitForTransactionReceipt"))
          ELSE /\ UpdateInv(p, BroadcastFailed(s))
               /\ UNCHANGED chainTxs
    /\ UNCHANGED <<cache, memories, settings, started, keysGenerated, savedOk, prov, oneAtATime>>

\* a failed confirmation wait is recorded like a receipt
TM_waitForTransactionReceipt_recordsAnyway(p, ok, status) ==
    /\ inv[p].pc = "tm_waitForTransactionReceipt"
    /\ LET s == Call(inv[p], "waitForTransactionReceipt", ok)
       IN UpdateInv(p, Goto([s EXCEPT !.receipt = IF ok THEN status ELSE "reverted"],
                            "tm_createMemory"))
    /\ UNCHANGED <<cache, memories, chainTxs, settings, started, keysGenerated,
                   savedOk, prov, oneAtATime>>

\* const receipt = await publicClient.waitForTransactionReceipt({ hash, confirmations: 1 })
TM_waitForTransactionReceipt(p, ok, status) ==
    /\ inv[p].pc = "tm_waitForTransactionReceipt"
    /\ LET s == Call(inv[p], "waitForTransactionReceipt", ok)
       IN UpdateInv(p, IF ok THEN Goto([s EXCEPT !.receipt = status], "tm_createMemory")
                       ELSE HandlerCatch(s))
    /\ UNCHANGED <<cache, memories, chainTxs, settings, started, keysGenerated,
                   savedOk, prov, oneAtATime>>

\* a reverted receipt is shown as failed
DisplayStatus_failed(status) == IF status = "success" THEN "Exitoso" ELSE "Fallido"

\* `Estado: ${receipt.status === "success" ? "Exitoso" : "Pendiente"}`
DisplayStatus(status) == IF status = "success" THEN "Exitoso" ELSE "Pendiente"

\* await agent.documentsManager.createMemory(...), then the success reply
TM_createMemory(p, ok) ==
    /\ inv[p].pc = "tm_createMemory"
    /\ LET s == Call(inv[p], "createMemory", ok)
       IN IF ok
          THEN /\ memories' = Append(memories,
                                [NewMemory(s, "TRANSFER_MNT", "transaction")
                                 EXCEPT !.transaction =
                                    [hash |-> s.txHash, from |-> s.provider.address,
                                     to |-> s.to, amount |-> s.amountStr,
                                     token |-> Null, status |-> s.receipt]])
               /\ UpdateInv(p, Return(Say(s, [ReplyOf("TransferCompleted")
                                              EXCEPT !.requested = s.amountStr,
                                                     !.address = s.provider.address,
                                                     !.to = s.to,
                                                     !.symbol = SymMNT,
                                                     !.txHash = s.txHash,
                                                     !.status = DisplayStatus(s.receipt)]),
                                      "true"))
          ELSE /\ UpdateInv(p, HandlerCatch(s))
               /\ UNCHANGED memories
    /\ UNCHANGED <<cache, chainTxs, settings, started, keysGenerated, savedOk, prov, oneAtATime>>

TransferMNT(p) ==
    \/ \E userId \in Callers, text \in Texts : TM_Start(p, userId, text)
    \/ \E ok \in BOOLEAN : TM_userHasWallet(p, ok)
    \/ \E ok \in BOOLEAN : TM_initUserWalletProvider(p, ok)
    \/ \E ok \in BOOLEAN, balance \in ChainAmounts : TM_getBalance(p, ok, balance)
    \/ \E ok \in BOOLEAN : TM_sendTransaction(p, ok)
    \/ \E ok \in BOOLEAN, status \in ReceiptStatuses :
            TM_waitForTransactionReceipt(p, ok, status)
    \/ \E ok \in BOOLEAN : TM_createMemory(p, ok)

(***************************************************************************)
(* TRANSFER_ERC20 (transferERC20Action.handler).                           *)
(***************************************************************************)
TE_Start(p, userId, text) ==
    /\ CanStart(p)
    /\ started' = started + 1
    /\ LET s == NewInv("TRANSFER_ERC20", userId, text)
       IN UpdateInv(p, IF userId = NoUserId THEN IdentityMissing(s)
                       ELSE Goto(s, "te_userHasWallet"))
    /\ UNCHANGED <<cache, memories, chainTxs, settings, keysGenerated, savedOk, prov, oneAtATime>>

\* const hasWallet = await userHasWallet(agent, userId)
TE_userHasWallet(p, ok) ==
    /\ inv[p].pc = "te_userHasWallet"
    /\ LET s == Call(inv[p], "cache.get", ok)
       IN UpdateInv(p, IF ~userHasWallet(s.userId, ok)
                       THEN Return(Say(s, ReplyOf("NeedWallet")), "false")
                       ELSE Goto(s, "te_initUserWalletProvider"))
    /\ UNCHANGED <<cache, memories, chainTxs, settings, started, keysGenerated,
                   savedOk, prov, oneAtATime>>

\* destination, token and amount, registry lookup, parseUnits
TE_ParseIntent(s) ==
    LET toAddress == extractEthereumWalletAddress(s.text)
        tokenInfo == extractTokenTransferInfo(s.text)
        token == TokenBySymbol(tokenInfo.symbol)
    IN IF toAddress = Null THEN Return(Say(s, ReplyOf("NoAddress")), "false")
       ELSE IF tokenInfo.amount = Null
       THEN Return(Say(s, ReplyOf("NoTokenAmount")), "false")
       ELSE IF ~isERC20Token(token)
       THEN Return(Say(s, ReplyOf("NoTokenConfig")), "false")
       ELSE Goto([s EXCEPT !.to = toAddress, !.amountStr = tokenInfo.amount,
                           !.value = parseUnits(tokenInfo.amount, token.decimals)],
                 "te_balanceOf")

\* const userWalletProvider = await initUserWalletProvider(agent, userId)
TE_initUserWalletProvider(p, ok) ==
    /\ inv[p].pc = "te_initUserWalletProvider"
    /\ LET s == Call(inv[p], "cache.get", ok)
           userWalletProvider == initUserWalletProvider(s.userId, ok)
       IN UpdateInv(p, IF userWalletProvider = NullWallet
                       THEN Return(Say(s, ReplyOf("WalletAccessFailed")), "false")
                       ELSE TE_ParseIntent([s EXCEPT !.provider = userWalletProvider]))
    /\ UNCHANGED <<cache, memories, chainTxs, settings, started, keysGenerated,
                   savedOk, prov, oneAtATime>>

TE_Processing(s) ==
    Goto(Say(s, [ReplyOf("Processing")
                 EXCEPT !.requested = s.amountStr, !.address = s.provider.address,
                        !.to = s.to]),
         "te_writeContract")

\* a failed balance read ends the invocation
TE_BalanceReadFailed_terminal(s) == HandlerCatch(s)

\* the inner catch of the balance verification: log and carry on
TE_BalanceReadFailed(s) == TE_Processing(s)

\* const tokenBalance = await publicClient.readContract({ functionName: "balanceOf" })
TE_balanceOf(p, ok, tokenBalance) ==
    /\ inv[p].pc = "te_balanceOf"
    /\ LET s == [Call(inv[p], "readContract", ok)
                  EXCEPT !.balance = IF ok THEN tokenBalance ELSE Null,
                         !.txsBefore = Len(chainTxs)]
       IN UpdateInv(p,
            IF ~ok THEN TE_BalanceReadFailed(s)
            ELSE IF InsufficientBalance(tokenBalance, s.value)
            THEN Return(Say(s, [ReplyOf("InsufficientBalance")
                                EXCEPT !.held = formatUnits(tokenBalance,
                                                            TOKENS.AISHOP.decimals),
                                       !.requested = s.amountStr,
                                       !.symbol = SymAISHOP]),
                        "false")
            ELSE TE_Processing(s))
    /\ UNCHANGED <<cache, memories, chainTxs, settings, started, keysGenerated,
                   savedOk, prov, oneAtATime>>

\* const txHash = await walletClient.writeContract({ functionName: "transfer" })
TE_writeContract(p, ok) ==
    /\ inv[p].pc = "te_writeContract"
    /\ LET s == Call(inv[p], "writeContract", ok)
           tx == NewTx(s, "erc20", s.provider.address, s.to, s.value)
       IN IF ok
          THEN /\ chainTxs' = Append(chainTxs, tx)
               /\ UpdateInv(p, Goto([s EXCEPT !.txHash = tx.hash],
                                    "te_waitForTransactionReceipt"))
          ELSE /\ UpdateInv(p, BroadcastFailed(s))
               /\ UNCHANGED chainTxs
    /\ UNCHANGED <<cache, memories, settings, started, keysGenerated, savedOk, prov, oneAtATime>>

\* const receipt = await publicClient.waitForTransactionReceipt({ hash, confirmations: 1 })
TE_waitForTransactionReceipt(p, ok, status) ==
    /\ inv[p].pc = "te_waitForTransactionReceipt"
    /\ LET s == Call(inv[p], "waitForTransactionReceipt", ok)
       IN UpdateInv(p, IF ok THEN Goto([s EXCEPT !.receipt = status], "te_createMemory")
                       ELSE HandlerCatch(s))
    /\ UNCHANGED <<cache, memories, chainTxs, settings, started, keysGenerated,
                   savedOk, prov, oneAtATime>>

\* await agent.documentsManager.createMemory(...), then the success reply
TE_createMemory(p, ok) ==
    /\ inv[p].pc = "te_createMemory"
    /\ LET s == Call(inv[p], "createMemory", ok)
       IN IF ok
          THEN /\ memories' = Append(memories,
                                [NewMemory(s, "TRANSFER_ERC20", "transaction")
                                 EXCEPT !.transaction =
                                    [hash |-> s.txHash, from |-> s.provider.address,
                                     to |-> s.to, amount |-> s.amountStr,
                                     token |-> SymAISHOP, status |-> s.receipt]])
               /\ UpdateInv(p, Return(Say(s, [ReplyOf("TransferCompleted")
                                              EXCEPT !.requested = s.amountStr,
                                                     !.address = s.provider.address,
                                                     !.to = s.to,
                                                     !.symbol = SymAISHOP,
                                                     !.txHash = s.txHash,
                                                     !.status = DisplayStatus(s.receipt)]),
                                      "true"))
          ELSE /\ UpdateInv(p, HandlerCatch(s))
               /\ UNCHANGED memories
    /\ UNCHANGED <<cache, chainTxs, settings, started, keysGenerated, savedOk, prov, oneAtATime>>

TransferERC20(p) ==
    \/ \E userId \in Callers, text \in Texts : TE_Start(p, userId, text)
    \/ \E ok \in BOOLEAN : TE_userHasWallet(p, ok)
    \/ \E ok \in BOOLEAN : TE_initUserWalletProvider(p, ok)
    \/ \E ok \in BOOLEAN, balance \in ChainAmounts : TE_balanceOf(p, ok, balance)
    \/ \E ok \in BOOLEAN : TE_writeContract(p, ok)
    \/ \E ok \in BOOLEAN, status \in ReceiptStatuses :
            TE_waitForTransactionReceipt(p, ok, status)
    \/ \E ok \in BOOLEAN : TE_createMemory(p, ok)

(***************************************************************************)
(* CHECK_BALANCE (checkBalanceAction.handler).                             *)
(***************************************************************************)
TokenErrorMarker == <<"Error al obtener balance">>

\* without process-level session the caller's own wallet is used
CB_Start_fallsBackToOwnWallet(p, userId, text) ==
    /\ CanStart(p)
    /\ started' = started + 1
    /\ LET s == NewInv("CHECK_BALANCE", userId, text)
           addressFromMessage == extractEthereumWalletAddress(text)
       IN UpdateInv(p,
            IF userId = NoUserId THEN IdentityMissing(s)
            ELSE IF addressFromMessage # Null /\ initWalletProvider
            THEN Goto([s EXCEPT !.address = addressFromMessage], "cb_getBalance")
            ELSE Goto(s, "cb_userHasWallet"))
    /\ UNCHANGED <<cache, memories, chainTxs, settings, keysGenerated, savedOk, prov, oneAtATime>>

\* the synchronous start: caller, explicit address, process-level session
CB_Start(p, userId, text) ==
    /\ CanStart(p)
    /\ started' = started + 1
    /\ LET s == NewInv("CHECK_BALANCE", userId, text)
           addressFromMessage == extractEthereumWalletAddress(text)
       IN UpdateInv(p,
            IF userId = NoUserId THEN IdentityMissing(s)
            ELSE IF addressFromMessage # Null
            THEN IF ~initWalletProvider
                 THEN Return(Say(s, ReplyOf("ClientInitFailed")), "false")
                 ELSE Goto([s EXCEPT !.address = addressFromMessage], "cb_getBalance")
            ELSE Goto(s, "cb_userHasWallet"))
    /\ UNCHANGED <<cache, memories, chainTxs, settings, keysGenerated, savedOk, prov, oneAtATime>>

\* const nativeBalance = await publicClient.getBalance({ address: addressFromMessage })
CB_getBalance(p, ok, nativeBalance) ==
    /\ inv[p].pc = "cb_getBalance"
    /\ LET s == Call(inv[p], "getBalance", ok)
       IN UpdateInv(p, IF ok
                       THEN Goto([s EXCEPT !.balances.MNT = formatEther(nativeBalance)],
                                 "cb_readContract")
                       ELSE HandlerCatch(s))
    /\ UNCHANGED <<cache, memories, chainTxs, settings, started, keysGenerated,
                   savedOk, prov, oneAtATime>>

\* the catch leaves the field as it was
CB_TokenValue_noMarker(ok, formatted) == formatted

\* balances.AISHOP after the try / catch around the token read
CB_TokenValue(ok, formatted) == IF ok THEN formatted ELSE TokenErrorMarker

\* const tokenBalance = await publicClient.readContract({ functionName: "balanceOf" })
CB_readContract(p, ok, tokenBalance) ==
    /\ inv[p].pc = "cb_readContract"
    /\ LET s == Call(inv[p], "readContract", ok)
           shown == CB_TokenValue(ok, formatUnits(tokenBalance, TOKENS.AISHOP.decimals))
       IN UpdateInv(p, Goto([s EXCEPT !.balances.AISHOP = shown], "cb_createMemory"))
    /\ UNCHANGED <<cache, memories, chainTxs, settings, started, keysGenerated,
                   savedOk, prov, oneAtATime>>

\* const hasWallet = await userHasWallet(agent, userId)
CB_userHasWallet(p, ok) ==
    /\ inv[p].pc = "cb_userHasWallet"
    /\ LET s == Call(inv[p], "cache.get", ok)
       IN UpdateInv(p, IF ~userHasWallet(s.userId, ok)
                       THEN Return(Say(s, ReplyOf("NoWallet")), "false")
                       ELSE Goto(s, "cb_initUserWalletProvider"))
    /\ UNCHANGED <<cache, memories, chainTxs, settings, started, keysGenerated,
                   savedOk, prov, oneAtATime>>

\* const userWalletProvider = await initUserWalletProvider(agent, userId)
CB_initUserWalletProvider(p, ok) ==
    /\ inv[p].pc = "cb_initUserWalletProvider"
    /\ LET s == Call(inv[p], "cache.get", ok)
           userWalletProvider == initUserWalletProvider(s.userId, ok)
       IN UpdateInv(p, IF userWalletProvider = NullWallet
                       THEN Return(Say(s, ReplyOf("WalletAccessProblem")), "false")
                       ELSE Goto([s EXCEPT !.provider = userWalletProvider,
                                           !.address = userWalletProvider.address],
                                 "cb_provider_getBalance"))
    /\ UNCHANGED <<cache, memories, chainTxs, settings, started, keysGenerated,
                   savedOk, prov, oneAtATime>>

\* const nativeBalance = await userWalletProvider.getBalance()
CB_provider_getBalance(p, ok, nativeBalance) ==
    /\ inv[p].pc = "cb_provider_getBalance"
    /\ LET s == Call(inv[p], "getBalance", ok)
       IN UpdateInv(p, IF ok
                       THEN Goto([s EXCEPT !.balances.MNT = formatEther(nativeBalance)],
                                 "cb_provider_decimals")
                       ELSE HandlerCatch(s))
    /\ UNCHANGED <<cache, memories, chainTxs, settings, started, keysGenerated,
                   savedOk, prov, oneAtATime>>

\* userWalletProvider.getTokenBalance, first read: decimals()
CB_provider_decimals(p, ok) ==
    /\ inv[p].pc = "cb_provider_decimals"
    /\ LET s == Call(inv[p], "readContract", ok)
       IN UpdateInv(p, IF ok THEN Goto(s, "cb_provider_balanceOf")
                       ELSE Goto([s EXCEPT !.balances.AISHOP =
                                        CB_TokenValue(FALSE, Null)],
                                 "cb_createMemory"))
    /\ UNCHANGED <<cache, memories, chainTxs, settings, started, keysGenerated,
                   savedOk, prov, oneAtATime>>

\* userWalletProvider.getTokenBalance, second read: balanceOf(address)
CB_provider_balanceOf(p, ok, tokenBalance) ==
    /\ inv[p].pc = "cb_provider_balanceOf"
    /\ LET s == Call(inv[p], "readContract", ok)
           shown == CB_TokenValue(ok, formatUnits(tokenBalance, Decimals))
       IN UpdateInv(p, Goto([s EXCEPT !.balances.AISHOP = shown], "cb_createMemory"))
    /\ UNCHANGED <<cache, memories, chainTxs, settings, started, keysGenerated,
                   savedOk, prov, oneAtATime>>

\* one line of a report; a balance line carries the symbol it is labelled with
TextLine(label, value) == [label |-> label, symbol |-> Null, value |-> value]
BalanceLine(symbol, value) == [label |-> "balance", symbol |-> symbol, value |-> value]

\* the token line is joined before the native line
ReportLines_tokenFirst(kind, address, balances) ==
    <<TextLine("header", Null),
      TextLine("address", address),
      BalanceLine(SymAISHOP, balances.AISHOP),
      BalanceLine(SymMNT, balances.MNT),
      TextLine("blank", Null),
      TextLine("explorer", address)>>

\* the array literal each report joins with "\n", line by line
ReportLines(kind, address, balances) ==
    IF kind = "AddressBalances"
    THEN <<TextLine("header", address),
           BalanceLine(SymMNT, balances.MNT),
           BalanceLine(SymAISHOP, balances.AISHOP),
           TextLine("blank", Null),
           TextLine("explorer", address)>>
    ELSE IF kind = "OwnBalances"
    THEN <<TextLine("header", Null),
           TextLine("blank", Null),
           TextLine("address", address),
           BalanceLine(SymMNT, balances.MNT),
           BalanceLine(SymAISHOP, balances.AISHOP),
           TextLine("blank", Null),
           TextLine("explorer", address)>>
    ELSE IF kind = "AddressInfo"
    THEN <<TextLine("header", Null),
           TextLine("address", address),
           BalanceLine(SymMNT, balances.MNT),
           BalanceLine(SymAISHOP, balances.AISHOP),
           TextLine("blank", Null),
           TextLine("explorer", address)>>
    ELSE <<TextLine("header", Null),
           TextLine("address", address),
           BalanceLine(SymMNT, balances.MNT),
           BalanceLine(SymAISHOP, balances.AISHOP),
           TextLine("blank", Null),
           TextLine("ready", Null),
           TextLine("explorer", address)>>

\* the report: its address, its balances and the lines in the order they are joined
BalanceReport(kind, address, balances) ==
    [ReplyOf(kind) EXCEPT !.address = address, !.balances = balances,
                          !.lines = ReportLines(kind, address, balances)]

\* await agent.documentsManager.createMemory(...), then the report
CB_createMemory(p, ok) ==
    /\ inv[p].pc = "cb_createMemory"
    /\ LET s == Call(inv[p], "createMemory", ok)
           kind == IF s.provider = NullWallet THEN "AddressBalances" ELSE "OwnBalances"
       IN IF ok
          THEN /\ memories' = Append(memories,
                                [NewMemory(s, "CHECK_BALANCE", "balances")
                                 EXCEPT !.address = s.address,
                                        !.balances = s.balances])
               /\ UpdateInv(p, Return(Say(s, BalanceReport(kind, s.address, s.balances)),
                                      "true"))
          ELSE /\ UpdateInv(p, HandlerCatch(s))
               /\ UNCHANGED memories
    /\ UNCHANGED <<cache, chainTxs, settings, started, keysGenerated, savedOk, prov, oneAtATime>>

CheckBalance(p) ==
    \/ \E userId \in Callers, text \in Texts : CB_Start(p, userId, text)
    \/ \E ok \in BOOLEAN, balance \in ChainAmounts : CB_getBalance(p, ok, balance)
    \/ \E ok \in BOOLEAN, balance \in ChainAmounts : CB_readContract(p, ok, balance)
    \/ \E ok \in BOOLEAN : CB_userHasWallet(p, ok)
    \/ \E ok \in BOOLEAN : CB_initUserWalletProvider(p, ok)
    \/ \E ok \in BOOLEAN, balance \in ChainAmounts : CB_provider_getBalance(p, ok, balance)
    \/ \E ok \in BOOLEAN : CB_provider_decimals(p, ok)
    \/ \E ok \in BOOLEAN, balance \in ChainAmounts : CB_provider_balanceOf(p, ok, balance)
    \/ \E ok \in BOOLEAN : CB_createMemory(p, ok)

(***************************************************************************)
(* walletProvider.get (providers/wallet.ts).                               *)
(***************************************************************************)
ProviderTokenError == <<"Error al consultar">>

\* return <text>
ReturnText(s, reply) ==
    Return([s EXCEPT !.replies = Append(@, reply),
                     !.trace = Append(@, [op |-> "return", ok |-> TRUE,
                                          note |-> reply.kind])],
           "text")

WP_Start(p, userId, text) ==
    /\ CanStart(p)
    /\ started' = started + 1
    /\ LET s == NewInv("PROVIDER", userId, text)
           match == addressMatch(text)
       IN UpdateInv(p,
            IF userId = NoUserId THEN ReturnText(s, ReplyOf("IdentityMissing"))
            ELSE IF match # Null
            THEN Goto([s EXCEPT !.address = toLowerCase(match)], "wp_getBalance")
            ELSE Goto(s, "wp_userHasWallet"))
    /\ UNCHANGED <<cache, memories, chainTxs, settings, keysGenerated, savedOk, prov, oneAtATime>>

\* const nativeBalance = await publicClient.getBalance({ address })
WP_getBalance(p, ok, nativeBalance) ==
    /\ inv[p].pc = "wp_getBalance"
    /\ LET s == Call(inv[p], "getBalance", ok)
       IN UpdateInv(p, IF ok
                       THEN Goto([s EXCEPT !.balances.MNT = formatEther(nativeBalance)],
                                 "wp_decimals")
                       ELSE ReturnText(s, [ReplyOf("BalanceError")
                                           EXCEPT !.address = s.address]))
    /\ UNCHANGED <<cache, memories, chainTxs, settings, started, keysGenerated,
                   savedOk, prov, oneAtATime>>

WP_Report(s, kind, aishopBalance) ==
    ReturnText(s, BalanceReport(kind, s.address,
                                [s.balances EXCEPT !.AISHOP = aishopBalance]))

\* const tokenDecimals = await publicClient.readContract({ functionName: "decimals" })
WP_decimals(p, ok) ==
    /\ inv[p].pc = "wp_decimals"
    /\ LET s == Call(inv[p], "readContract", ok)
       IN UpdateInv(p, IF ok THEN Goto(s, "wp_balanceOf")
                       ELSE WP_Report(s, "AddressInfo", ProviderTokenError))
    /\ UNCHANGED <<cache, memories, chainTxs, settings, started, keysGenerated,
                   savedOk, prov, oneAtATime>>

\* const tokenBalance = await publicClient.readContract({ functionName: "balanceOf" })
WP_balanceOf(p, ok, tokenBalance) ==
    /\ inv[p].pc = "wp_balanceOf"
    /\ LET s == Call(inv[p], "readContract", ok)
       IN UpdateInv(p, WP_Report(s, "AddressInfo",
                                 IF ok THEN formatUnits(tokenBalance, Decimals)
                                 ELSE ProviderTokenError))
    /\ UNCHANGED <<cache, memories, chainTxs, settings, started, keysGenerated,
                   savedOk, prov, oneAtATime>>

\* const hasWallet = await userHasWallet(runtime, userId)
WP_userHasWallet(p, ok) ==
    /\ inv[p].pc = "wp_userHasWallet"
    /\ LET s == Call(inv[p], "cache.get", ok)
       IN UpdateInv(p, IF ~userHasWallet(s.userId, ok)
                       THEN ReturnText(s, ReplyOf("NoWallet"))
                       ELSE Goto(s, "wp_initUserWalletProvider"))
    /\ UNCHANGED <<cache, memories, chainTxs, settings, started, keysGenerated,
                   savedOk, prov, oneAtATime>>

\* const provider = await initUserWalletProvider(runtime, userId)
WP_initUserWalletProvider(p, ok) ==
    /\ inv[p].pc = "wp_initUserWalletProvider"
    /\ LET s == Call(inv[p], "cache.get", ok)
           provider == initUserWalletProvider(s.userId, ok)
       IN UpdateInv(p, IF provider = NullWallet
                       THEN ReturnText(s, ReplyOf("WalletAccessProblem"))
                       ELSE Goto([s EXCEPT !.provider = provider,
                                           !.address = provider.address],
                                 "wp_provider_getBalance"))
    /\ UNCHANGED <<cache, memories, chainTxs, settings, started, keysGenerated,
                   savedOk, prov, oneAtATime>>

\* const mntBalance = await provider.getBalance()
WP_provider_getBalance(p, ok, mntBalance) ==
    /\ inv[p].pc = "wp_provider_getBalance"
    /\ LET s == Call(inv[p], "getBalance", ok)
       IN UpdateInv(p, IF ok
                       THEN Goto([s EXCEPT !.balances.MNT = formatEther(mntBalance)],
                                 "wp_provider_decimals")
                       ELSE ReturnText(s, ReplyOf("WalletInfoError")))
    /\ UNCHANGED <<cache, memories, chainTxs, settings, started, keysGenerated,
                   savedOk, prov, oneAtATime>>

\* provider.getTokenBalance, first read: decimals()
WP_provider_decimals(p, ok) ==
    /\ inv[p].pc = "wp_provider_decimals"
    /\ LET s == Call(inv[p], "readContract", ok)
       IN UpdateInv(p, IF ok THEN Goto(s, "wp_provider_balanceOf")
                       ELSE WP_Report(s, "WalletInfo", ProviderTokenError))
    /\ UNCHANGED <<cache, memories, chainTxs, settings, started, keysGenerated,
                   savedOk, prov, oneAtATime>>

\* provider.getTokenBalance, second read: balanceOf(address)
WP_provider_balanceOf(p, ok, tokenBalance) ==
    /\ inv[p].pc = "wp_provider_balanceOf"
    /\ LET s == Call(inv[p], "readContract", ok)
       IN UpdateInv(p, WP_Report(s, "WalletInfo",
                                 IF ok THEN formatUnits(tokenBalance, Decimals)
                                 ELSE ProviderTokenError))
    /\ UNCHANGED <<cache, memories, chainTxs, settings, started, keysGenerated,
                   savedOk, prov, oneAtATime>>

WalletProviderGet(p) ==
    \/ \E userId \in Callers, text \in Texts : WP_Start(p, userId, text)
    \/ \E ok \in BOOLEAN, balance \in ChainAmounts : WP_getBalance(p, ok, balance)
    \/ \E ok \in BOOLEAN : WP_decimals(p, ok)
    \/ \E ok \in BOOLEAN, balance \in ChainAmounts : WP_balanceOf(p, ok, balance)
    \/ \E ok \in BOOLEAN : WP_userHasWallet(p, ok)
    \/ \E ok \in BOOLEAN : WP_initUserWalletProvider(p, ok)
    \/ \E ok \in BOOLEAN, balance \in ChainAmounts : WP_provider_getBalance(p, ok, balance)
    \/ \E ok \in BOOLEAN : WP_provider_decimals(p, ok)
    \/ \E ok \in BOOLEAN, balance \in ChainAmounts : WP_provider_balanceOf(p, ok, balance)

(***************************************************************************)
(* getUserIdByAddress, called with the address of a stored wallet as it    *)
(* was derived or in lower case.                                           *)
(***************************************************************************)
StoredAddresses == {pair[2] : pair \in savedOk}

LookupArguments == StoredAddresses \cup {toLowerCase(a) : a \in StoredAddresses}

RS_Start(p, address) ==
    /\ CanStart(p)
    /\ started' = started + 1
    /\ UpdateInv(p, Goto([NewInv("RESOLVE", NoUserId, Null)
                          EXCEPT !.address = address,
                                 !.expected = {pair[1] : pair \in
                                                {q \in savedOk : q[2] = address}}],
                         "rs_get"))
    /\ UNCHANGED <<cache, memories, chainTxs, settings, keysGenerated, savedOk, prov, oneAtATime>>

\* const userId = await agent.cacheManager.get(`address_to_user:${address}`)
RS_get(p, ok) ==
    /\ inv[p].pc = "rs_get"
    /\ LET s == Call(inv[p], "cache.get", ok)
       IN UpdateInv(p, Return([s EXCEPT !.resolved = getUserIdByAddress(s.address, ok)],
                              "value"))
    /\ UNCHANGED <<cache, memories, chainTxs, settings, started, keysGenerated,
                   savedOk, prov, oneAtATime>>

Resolve(p) ==
    \/ \E address \in LookupArguments : RS_Start(p, address)
    \/ \E ok \in BOOLEAN : RS_get(p, ok)

(***************************************************************************)
(* The invocation has returned: its process takes the next message.        *)
(***************************************************************************)
Ops(s) == {s.trace[i].op : i \in 1..Len(s.trace)}
FailedOps(s) == {s.trace[i].op : i \in {j \in 1..Len(s.trace) : ~s.trace[j].ok}}
RepliedAddresses(s) ==
    {s.replies[i].address : i \in 1..Len(s.replies)} \ {Null}

ProvisioningSummary(s) ==
    [id |-> s.id, returned |-> s.returned, addresses |-> RepliedAddresses(s),
     generated |-> "generatePrivateKey" \in Ops(s),
     wrote |-> "cache.set" \in Ops(s),
     writes |-> Cardinality({i \in 1..Len(s.trace) :
                                s.trace[i].op = "cache.set" /\ s.trace[i].ok}),
     walletData |-> s.walletData,
     failed |-> FailedOps(s),
     record |-> IF s.userId \in DOMAIN cache.user_wallet
                THEN JSONparse(cache.user_wallet[s.userId])
                ELSE NullWalletData]

Finish(p) ==
    /\ inv[p].pc = "done"
    /\ UpdateInv(p, IdleInv)
    /\ prov' = IF inv[p].flow = "CREATE_WALLET" /\ inv[p].userId # NoUserId
               THEN [prov EXCEPT ![inv[p].userId] =
                        Append(@, ProvisioningSummary(inv[p]))]
               ELSE prov
    /\ UNCHANGED <<cache, memories, chainTxs, settings, started, keysGenerated, savedOk, oneAtATime>>

Step(p) ==
    \/ CreateWallet(p)
    \/ CheckBalance(p)
    \/ TransferMNT(p)
    \/ TransferERC20(p)
    \/ WalletProviderGet(p)
    \/ Resolve(p)
    \/ Finish(p)

Next == \E p \in Procs : Step(p)

\* every flow runs to completion before the next message is taken
InitOneAtATime == Init /\ oneAtATime = TRUE
Spec == InitOneAtATime /\ [][Next]_vars

\* flows of different messages interleave at their awaits
InitInterleaved == Init /\ oneAtATime = FALSE
SpecInterleaved == InitInterleaved /\ [][Next]_vars

\* the state after user u1 has been provisioned: the wallet record, its
\* reverse entry and the InteractionRecord of the creation are stored;
\* invocations are counted from this state on
ProvisionedUser == "u1"
ProvisionedWalletData ==
    [address |-> privateKeyToAccount(generatePrivateKey(1)).address,
     privateKey |-> generatePrivateKey(1), createdAt |-> 0]

ProvisionedState ==
    /\ cache = [user_wallet |->
                    [u \in {ProvisionedUser} |-> JSONstringify(ProvisionedWalletData)],
                address_to_user |->
                    [a \in {ReverseKey(ProvisionedWalletData)} |-> ProvisionedUser]]
    /\ memories = <<[id |-> 1, inv |-> 0, userId |-> ProvisionedUser,
                     action |-> "CREATE_WALLET", payload |-> "walletAddress",
                     address |-> ProvisionedWalletData.address,
                     balances |-> NoBalances,
                     transaction |-> [hash |-> 0, from |-> Null, to |-> Null,
                                      amount |-> Null, token |-> Null, status |-> ""]]>>
    /\ chainTxs = << >>
    /\ settings = [EVM_PRIVATE_KEY |-> TRUE]
    /\ inv = [p \in Procs |-> IdleInv]
    /\ started = 0
    /\ keysGenerated = 1
    /\ savedOk = {<<ProvisionedUser, ProvisionedWalletData.address>>}
    /\ prov = [u \in Users |->
                IF u = ProvisionedUser
                THEN <<[id |-> 0, returned |-> "true",
                        addresses |-> {ProvisionedWalletData.address},
                        generated |-> TRUE, wrote |-> TRUE, writes |-> 2,
                        walletData |-> ProvisionedWalletData, failed |-> {},
                        record |-> ProvisionedWalletData]>>
                ELSE << >>]

InitWithWallet == ProvisionedState /\ oneAtATime = FALSE

\* messages whose 0x-prefixed hex run is 40, 39 and 41 characters long, a
\* message without amount and one with two addresses
TextShortRun ==
    <<"e", "n", "v", "i", "a", "r", " ", "0", ".", "5", " ", "M", "N", "T", " ",
      "a", " ", "0", "x">> \o Rep("1", AddrHexLen - 1)
TextLongRun ==
    <<"e", "n", "v", "i", "a", "r", " ", "0", ".", "5", " ", "M", "N", "T", " ",
      "a", " ", "0", "x">> \o Rep("1", AddrHexLen + 1)
TextNoAmount ==
    <<"e", "n", "v", "i", "a", "r", " ", "M", "N", "T", " ",
      "a", " ", "0", "x">> \o Rep("1", AddrHexLen)
TextTwoAddresses ==
    <<"e", "n", "v", "i", "a", "r", " ", "1", " ", "m", "n", "t", " ",
      "a", " ", "0", "x">> \o Rep("2", AddrHexLen) \o <<" ", "0", "x">>
                            \o Rep("3", AddrHexLen)
ProbeTexts == {TextSendMNT, TextShortRun, TextLongRun, TextNoAmount, TextTwoAddresses}

\* native transfers of the provisioned user, one at a time, over the probe
\* messages
InitExtraction == ProvisionedState /\ oneAtATime = TRUE
NextExtraction ==
    \E p \in Procs :
        \/ \E text \in ProbeTexts : TM_Start(p, ProvisionedUser, text)
        \/ \E ok \in BOOLEAN : TM_userHasWallet(p, ok)
        \/ \E ok \in BOOLEAN : TM_initUserWalletProvider(p, ok)
        \/ \E ok \in BOOLEAN, balance \in ChainAmounts : TM_getBalance(p, ok, balance)
        \/ \E ok \in BOOLEAN : TM_sendTransaction(p, ok)
        \/ \E ok \in BOOLEAN, status \in ReceiptStatuses :
                TM_waitForTransactionReceipt(p, ok, status)
        \/ \E ok \in BOOLEAN : TM_createMemory(p, ok)
        \/ Finish(p)
SpecExtraction == InitExtraction /\ [][NextExtraction]_vars

\* transfer requests of the provisioned user only, interleaved at their
\* awaits
NextTransfers ==
    \E p \in Procs :
        \/ TM_Start(p, ProvisionedUser, TextSendMNT)
        \/ \E ok \in BOOLEAN : TM_userHasWallet(p, ok)
        \/ \E ok \in BOOLEAN : TM_initUserWalletProvider(p, ok)
        \/ \E ok \in BOOLEAN, balance \in ChainAmounts : TM_getBalance(p, ok, balance)
        \/ \E ok \in BOOLEAN : TM_sendTransaction(p, ok)
        \/ \E ok \in BOOLEAN, status \in ReceiptStatuses :
                TM_waitForTransactionReceipt(p, ok, status)
        \/ \E ok \in BOOLEAN : TM_createMemory(p, ok)
        \/ TE_Start(p, ProvisionedUser, TextSendAISHOP)
        \/ \E ok \in BOOLEAN : TE_userHasWallet(p, ok)
        \/ \E ok \in BOOLEAN : TE_initUserWalletProvider(p, ok)
        \/ \E ok \in BOOLEAN, balance \in ChainAmounts : TE_balanceOf(p, ok, balance)
        \/ \E ok \in BOOLEAN : TE_writeContract(p, ok)
        \/ \E ok \in BOOLEAN, status \in ReceiptStatuses :
                TE_waitForTransactionReceipt(p, ok, status)
        \/ \E ok \in BOOLEAN : TE_createMemory(p, ok)
        \/ Finish(p)
SpecTransferRace == InitWithWallet /\ [][NextTransfers]_vars

\* the cache holds the wallet record of the provisioned user in one of the
\* forms the cache adapter can hand back, or no record at all; no
\* InteractionRecord was written for it
StoredForms == {"string", "object", "garbled"}

InitStoredForms ==
    /\ \E form \in StoredForms \cup {"absent"} :
        LET holders == IF form = "absent" THEN {} ELSE {ProvisionedUser}
        IN /\ cache =
                [user_wallet |->
                    [u \in holders |->
                        [type |-> form,
                         json |-> IF form = "garbled" THEN NullWalletData
                                  ELSE ProvisionedWalletData]],
                 address_to_user |->
                    [a \in {ReverseKey(ProvisionedWalletData) : u \in holders} |->
                        ProvisionedUser]]
           /\ savedOk = {<<u, ProvisionedWalletData.address>> : u \in holders}
    /\ memories = << >>
    /\ chainTxs = << >>
    /\ settings \in {[EVM_PRIVATE_KEY |-> b] : b \in BOOLEAN}
    /\ inv = [p \in Procs |-> IdleInv]
    /\ started = 0
    /\ keysGenerated = 1
    /\ prov = [u \in Users |-> << >>]
    /\ oneAtATime = TRUE

\* the flows that read the wallet record, one at a time
NextWalletReaders ==
    \E p \in Procs : CreateWallet(p) \/ CheckBalance(p) \/ Finish(p)
SpecWalletStore == InitStoredForms /\ [][NextWalletReaders]_vars

\* provisioning requests of one user only, interleaved at their awaits
InitProvisioningRace == InitInterleaved /\ settings.EVM_PRIVATE_KEY = TRUE
NextProvisioning ==
    \E p \in Procs :
        \/ CW_Start(p, ProvisionedUser)
        \/ \E ok \in BOOLEAN : CW_userHasWallet(p, ok)
        \/ \E ok \in BOOLEAN : CW_getUserWallet(p, ok)
        \/ \E ok \in BOOLEAN : CW_setForward(p, ok)
        \/ \E ok \in BOOLEAN : CW_setReverse(p, ok)
        \/ \E ok \in BOOLEAN : CW_createMemory(p, ok)
        \/ Finish(p)
SpecProvisioningRace == InitProvisioningRace /\ [][NextProvisioning]_vars

(***************************************************************************)
(* The intent predicates (validate of the four actions).                   *)
(***************************************************************************)
\* text.includes(search)
includes(text, search) ==
    \E i \in 1..(Len(text) - Len(search) + 1) :
        SubSeq(text, i, i + Len(search) - 1) = search

\* the address disjunct is dropped
checkBalanceAction_validate_keywordsOnly(text) ==
    LET lowered == toLowerCase(text)
    IN \/ includes(lowered, <<"b", "a", "l", "a", "n", "c", "e">>)
       \/ includes(lowered, <<"w", "a", "l", "l", "e", "t">>)
       \/ includes(lowered, <<"s", "a", "l", "d", "o">>)
       \/ includes(lowered, <<"f", "o", "n", "d", "o", "s">>)

\* balance, wallet, saldo, fondos or an address, in the lower-cased text
checkBalanceAction_validate(text) ==
    LET lowered == toLowerCase(text)
    IN \/ includes(lowered, <<"b", "a", "l", "a", "n", "c", "e">>)
       \/ includes(lowered, <<"w", "a", "l", "l", "e", "t">>)
       \/ includes(lowered, <<"s", "a", "l", "d", "o">>)
       \/ includes(lowered, <<"f", "o", "n", "d", "o", "s">>)
       \/ extractEthereumWalletAddress(lowered) # Null

\* one of the five phrases, in the lower-cased text
createWalletAction_validate(text) ==
    LET lowered == toLowerCase(text)
    IN \/ includes(lowered, <<"c", "r", "e", "a", "r", " ", "w", "a", "l", "l", "e", "t">>)
       \/ includes(lowered, <<"n", "u", "e", "v", "a", " ", "w", "a", "l", "l", "e", "t">>)
       \/ includes(lowered, <<"g", "e", "n", "e", "r", "a", "r", " ", "w", "a", "l", "l", "e", "t">>)
       \/ includes(lowered, <<"c", "r", "e", "a", "t", "e", " ", "w", "a", "l", "l", "e", "t">>)
       \/ includes(lowered, <<"s", "e", "t", "u", "p", " ", "w", "a", "l", "l", "e", "t">>)

\* a keyword in the lower-cased text; address and amount in the text as sent
transferMNTAction_validate(text) ==
    LET lowered == toLowerCase(text)
        hasTransferIntent ==
           \/ includes(lowered, <<"t", "r", "a", "n", "s", "f", "e", "r">>)
           \/ includes(lowered, <<"s", "e", "n", "d">>)
           \/ includes(lowered, <<"e", "n", "v", "i", "a", "r">>)
           \/ includes(lowered, <<"t", "r", "a", "n", "s", "f", "e", "r", "i", "r">>)
        hasAddress == extractEthereumWalletAddress(text) # Null
        hasAmount == extractAmount(text) # Null
    IN hasTransferIntent /\ hasAddress /\ hasAmount

transferERC20Action_validate(text) ==
    LET lowered == toLowerCase(text)
        hasTransferIntent ==
           \/ includes(lowered, <<"t", "r", "a", "n", "s", "f", "e", "r">>)
           \/ includes(lowered, <<"s", "e", "n", "d">>)
           \/ includes(lowered, <<"e", "n", "v", "i", "a", "r">>)
           \/ includes(lowered, <<"t", "r", "a", "n", "s", "f", "e", "r", "i", "r">>)
        mentionsAishop == includes(lowered, <<"a", "i", "s", "h", "o", "p">>)
        hasAddress == extractEthereumWalletAddress(text) # Null
        hasTokenInfo == extractTokenTransferInfo(text).amount # Null
    IN hasTransferIntent /\ mentionsAishop /\ hasAddress /\ hasTokenInfo

validate(action, text) ==
    IF action = "CREATE_WALLET" THEN createWalletAction_validate(text)
    ELSE IF action = "CHECK_BALANCE" THEN checkBalanceAction_validate(text)
    ELSE IF action = "TRANSFER_MNT" THEN transferMNTAction_validate(text)
    ELSE transferERC20Action_validate(text)

\* an inbound message is offered to the predicates
VA_Start(p, text) ==
    /\ CanStart(p)
    /\ started' = started + 1
    /\ UpdateInv(p, Goto(NewInv("VALIDATE", NoUserId, text), "va_validate"))
    /\ UNCHANGED <<cache, memories, chainTxs, settings, keysGenerated, savedOk, prov, oneAtATime>>

\* await action.validate(agent, memory, state), for one action
VA_validate(p, action) ==
    /\ inv[p].pc = "va_validate"
    /\ action \notin inv[p].evaluated
    /\ LET result == validate(action, inv[p].text)
           s == [inv[p] EXCEPT !.evaluated = @ \cup {action},
                               !.accepted = IF result THEN @ \cup {action} ELSE @,
                               !.trace = Append(@, [op |-> "validate", ok |-> result,
                                                    note |-> action])]
       IN UpdateInv(p, IF s.evaluated = Handlers THEN Return(s, "validated") ELSE s)
    /\ UNCHANGED <<cache, memories, chainTxs, settings, started, keysGenerated,
                   savedOk, prov, oneAtATime>>

\* the messages offered: a keyword, an amount part and a destination part
\* (mixed-case address, 0X prefix, 39 hex characters, none), the creation
\* phrases and the balance words in either case
IntentTexts ==
    LET keywords ==
           {
            <<"e", "n", "v", "i", "a", "r">>,
            <<"S", "E", "N", "D">>,
            <<"T", "r", "a", "n", "s", "f", "e", "r", "i", "r">>,
            <<"t", "r", "a", "n", "s", "f", "e", "r">>,
            <<"h", "o", "l", "a">>
           }
        amounts ==
           {
            <<" ", "0", ".", "5", " ", "M", "N", "T">>,
            <<" ", "2", " ", "a", "i", "s", "h", "o", "p">>,
            <<" ", "0", ".", "5", " ", "M", "N", "T", " ", "y", " ", "2",
              " ", "A", "I", "S", "H", "O", "P">>,
            << >>
           }
        destinations ==
           {<<" ", "a", " ", "0", "x">> \o Rep("A", 20) \o Rep("a", 20),
            <<" ", "a", " ", "0", "X">> \o Rep("1", AddrHexLen),
            <<" ", "a", " ", "0", "x">> \o Rep("1", AddrHexLen - 1),
            << >>}
        phrases ==
           {
            <<"c", "r", "e", "a", "r", " ", "w", "a", "l", "l", "e", "t">>,
            <<"n", "u", "e", "v", "a", " ", "w", "a", "l", "l", "e", "t">>,
            <<"g", "e", "n", "e", "r", "a", "r", " ", "w", "a", "l", "l",
              "e", "t">>,
            <<"c", "r", "e", "a", "t", "e", " ", "w", "a", "l", "l", "e",
              "t">>,
            <<"s", "e", "t", "u", "p", " ", "w", "a", "l", "l", "e", "t">>,
            <<"w", "a", "l", "l", "e", "t">>,
            <<"b", "a", "l", "a", "n", "c", "e">>,
            <<"s", "a", "l", "d", "o">>,
            <<"f", "o", "n", "d", "o", "s">>
           }
    IN {keyword \o amount \o destination :
            keyword \in keywords, amount \in amounts, destination \in destinations}
       \cup phrases \cup {toUpperCase(phrase) : phrase \in phrases}

NextIntent ==
    \E p \in Procs :
        \/ \E text \in IntentTexts : VA_Start(p, text)
        \/ \E action \in Handlers : VA_validate(p, action)
        \/ Finish(p)

SpecIntent == InitOneAtATime /\ [][NextIntent]_vars

(***************************************************************************)
(* Vocabulary of the properties.                                           *)
(***************************************************************************)
Transfers == {"TRANSFER_MNT", "TRANSFER_ERC20"}
ChainReads == {"getBalance", "readContract"}
Broadcasts == {"sendTransaction", "writeContract"}

LastReply(s) == s.replies[Len(s.replies)]
ReplyKinds(s) == {s.replies[i].kind : i \in 1..Len(s.replies)}
OpSeq(s) == [i \in 1..Len(s.trace) |-> s.trace[i].op]
Failures(s) == {i \in 1..Len(s.trace) : ~s.trace[i].ok}
MemoriesOf(s) == {i \in 1..Len(memories) : memories[i].inv = s.id}
TxsOf(s) == {i \in 1..Len(chainTxs) : chainTxs[i].inv = s.id}
HasRecord(userId) == CacheHas("user_wallet", userId)
Reports == {"AddressBalances", "OwnBalances", "AddressInfo", "WalletInfo"}

(***************************************************************************)
(* C1: provisioning twice for one user.                                    *)
(***************************************************************************)
CacheSucceeded(e) == e.failed \cap {"cache.get", "cache.set"} = {}

\* the second of two provisioning invocations of one user repeats the
\* address of the first, generates no key, writes nothing and leaves the
\* record of the first
Idempotent(first, second) ==
    /\ Cardinality(first.addresses) = 1
    /\ second.addresses = first.addresses
    /\ ~second.generated
    /\ ~second.wrote
    /\ first.record # NullWalletData
    /\ second.record = first.record
    /\ first.addresses = {first.record.address}

C2_InsufficientNeverBroadcasts ==
    \A p \in Procs :
        LET s == inv[p]
        IN (s.flow \in Transfers /\ s.balance # Null /\ BigLess(s.balance, s.value))
            => /\ s.pc = "done"
               /\ s.returned = "false"
               /\ Ops(s) \cap Broadcasts = {}
               /\ s.txHash = 0
               /\ TxsOf(s) = {}
               /\ MemoriesOf(s) = {}
               /\ LastReply(s).kind = "InsufficientBalance"
               /\ LastReply(s).held = formatUnits(s.balance, Decimals)
               /\ LastReply(s).requested = s.amountStr
               /\ s.amountStr # Null

C2_Witness ==
    \E p \in Procs :
        /\ inv[p].flow = "TRANSFER_ERC20"
        /\ inv[p].balance # Null
        /\ BigLess(inv[p].balance, inv[p].value)
        /\ inv[p].returned = "false"

(***************************************************************************)
(* C3: the reverse lookup after a successful creation.                     *)
(***************************************************************************)
\* C3 as stated: a lookup of an address whose saveUserWallet returned true
\* for user u returns u.
C3_LookupReturnsOwner ==
    \A p \in Procs :
        LET s == inv[p]
        IN (s.flow = "RESOLVE" /\ s.pc = "done" /\ s.expected # {})
            => s.resolved \in s.expected

\* C3 amended: the reverse entry of every successful creation stays in the
\* cache, and a lookup returns the owner when its cache read succeeds and
\* null when that read throws.
C3_LookupReturnsOwnerUnlessReadFails ==
    /\ \A pair \in savedOk :
            /\ CacheHas("address_to_user", pair[2])
            /\ cache.address_to_user[pair[2]] = pair[1]
    /\ \A p \in Procs :
        LET s == inv[p]
        IN (s.flow = "RESOLVE" /\ s.pc = "done" /\ s.expected # {})
            => IF Failures(s) = {}
               THEN s.expected = {s.resolved}
               ELSE s.resolved = NoUserId

C3_Witness ==
    \E p \in Procs :
        /\ inv[p].flow = "RESOLVE" /\ inv[p].pc = "done"
        /\ Failures(inv[p]) = {}
        /\ inv[p].resolved \in Users
        /\ inv[p].expected = {inv[p].resolved}

(***************************************************************************)
(* C4, C5: the stored record of a user.                                    *)
(***************************************************************************)
\* C4: saveUserWallet, called for a user who has a record, fails and leaves
\* the forward record and the reverse index as they were.
C4_SaveFailsWhenRecordExists ==
    [][\A p \in Procs :
          (/\ inv[p].pc = "cw_setForward"
           /\ HasRecord(inv[p].userId)
           /\ inv'[p] # inv[p])
            => /\ cache' = cache
               /\ inv'[p].pc = "done"
               /\ inv'[p].returned = "false"]_vars

\* C5: a stored WalletRecord keeps its address and private key and is never
\* removed.
C5_RecordNeverChanges ==
    [][\A u \in DOMAIN cache.user_wallet :
          /\ u \in DOMAIN cache'.user_wallet
          /\ JSONparse(cache'.user_wallet[u]).address
                = JSONparse(cache.user_wallet[u]).address
          /\ JSONparse(cache'.user_wallet[u]).privateKey
                = JSONparse(cache.user_wallet[u]).privateKey]_vars

(***************************************************************************)
(* C6: a transfer by a caller without a wallet.                            *)
(***************************************************************************)
\* C6: a transfer invocation of a user without WalletRecord is either still
\* before its wallet check or has ended there: one reply asking to create a
\* wallet, false returned, nothing parsed, no chain call, no broadcast and
\* no InteractionRecord.
C6_NoWalletIsTerminal ==
    \A p \in Procs :
        LET s == inv[p]
        IN (s.flow \in Transfers /\ s.userId # NoUserId /\ ~HasRecord(s.userId))
            => \/ /\ s.pc \in {"tm_userHasWallet", "te_userHasWallet"}
                  /\ s.trace = << >>
               \/ /\ s.pc = "done"
                  /\ s.returned = "false"
                  /\ ReplyKinds(s) = {"NeedWallet"}
                  /\ OpSeq(s) = <<"cache.get", "callback">>
                  /\ s.to = Null /\ s.amountStr = Null /\ s.value = Null
                  /\ TxsOf(s) = {}
                  /\ MemoriesOf(s) = {}

C6_Witness ==
    \E p \in Procs :
        /\ inv[p].flow = "TRANSFER_MNT"
        /\ inv[p].userId # NoUserId
        /\ ~HasRecord(inv[p].userId)
        /\ inv[p].pc = "done"
        /\ extractEthereumWalletAddress(inv[p].text) # Null
        /\ extractAmount(inv[p].text) # Null

(***************************************************************************)
(* C7: the target of a balance query.                                      *)
(***************************************************************************)
BalanceFlows == {"CHECK_BALANCE", "PROVIDER"}

TargetInText(s) ==
    IF s.flow = "PROVIDER" THEN addressMatch(s.text)
    ELSE extractEthereumWalletAddress(s.text)

\* the explicit address is the target and the native balance read is the
\* first call, with no cache read
ReachesFetchNative(s) ==
    /\ toLowerCase(s.address) = toLowerCase(TargetInText(s))
    /\ "cache.get" \notin Ops(s)
    /\ \/ s.trace = << >> /\ s.pc \in {"cb_getBalance", "wp_getBalance"}
       \/ s.trace # << >> /\ s.trace[1].op = "getBalance"

\* no address in the text and no record: the invocation is before the
\* wallet check or has ended with the create-a-wallet reply and no chain read
OwnWalletRequired(s) ==
    \/ /\ s.pc \in {"cb_userHasWallet", "wp_userHasWallet"}
       /\ s.trace = << >>
    \/ /\ s.pc = "done"
       /\ ReplyKinds(s) = {"NoWallet"}
       /\ s.returned \in {"false", "text"}
       /\ Ops(s) \cap ChainReads = {}

ClientInitFailed(s) ==
    /\ s.pc = "done"
    /\ s.returned = "false"
    /\ ReplyKinds(s) = {"ClientInitFailed"}
    /\ OpSeq(s) = <<"callback">>

ReportedWithMarker(s) ==
    /\ s.returned = "true"
    /\ LastReply(s).kind \in Reports
    /\ LastReply(s).balances.AISHOP = TokenErrorMarker
    /\ LastReply(s).balances.MNT = s.balances.MNT
    /\ s.balances.MNT \notin {Null, TokenErrorMarker}
    /\ \E i \in MemoriesOf(s) : memories[i].balances = LastReply(s).balances

\* the failure reply, with no report and no InteractionRecord
Aborted(s) ==
    /\ s.returned = "false"
    /\ LastReply(s).kind = "Error"
    /\ ReplyKinds(s) \cap Reports = {}
    /\ MemoriesOf(s) = {}

\* C8 as stated: a failed token read ends in the persisted report with the
\* marker and true; a failed native read ends in the failure reply with no
\* report and no InteractionRecord.
C8_TokenFailureIsolated ==
    \A p \in Procs :
        LET s == inv[p]
        IN (s.flow = "CHECK_BALANCE" /\ s.pc = "done")
            => /\ "readContract" \in FailedOps(s) => ReportedWithMarker(s)
               /\ "getBalance" \in FailedOps(s) => Aborted(s)

\* C8 amended: after a failed token read the token field holds the marker,
\* the native value is kept and the InteractionRecord write is attempted;
\* the report is replied and true returned when that write succeeds, and
\* the invocation is aborted when it fails.  A failed native read aborts.
C8_TokenFailureIsolatedUnlessPersistFails ==
    \A p \in Procs :
        LET s == inv[p]
        IN /\ (s.flow = "CHECK_BALANCE" /\ "readContract" \in FailedOps(s))
                => /\ s.balances.AISHOP = TokenErrorMarker
                   /\ s.balances.MNT \notin {Null, TokenErrorMarker}
                   /\ s.pc \in {"cb_createMemory", "done"}
                   /\ s.pc = "done"
                        => /\ "createMemory" \in Ops(s)
                           /\ IF "createMemory" \in FailedOps(s)
                              THEN Aborted(s)
                              ELSE ReportedWithMarker(s)
           /\ (s.flow = "CHECK_BALANCE" /\ "getBalance" \in FailedOps(s))
                => /\ s.pc = "done"
                   /\ Aborted(s)
                   /\ Ops(s) \cap {"readContract", "createMemory"} = {}

C8_Witness ==
    \E p \in Procs :
        /\ inv[p].flow = "CHECK_BALANCE"
        /\ inv[p].pc = "done"
        /\ "readContract" \in FailedOps(inv[p])
        /\ inv[p].returned = "true"

(***************************************************************************)
(* C9: no failure leaves a flow.                                           *)
(***************************************************************************)
Answers(s) ==
    /\ s.replies # << >>
    /\ s.trace[Len(s.trace)].op \in {"callback", "return"}

\* C9 as stated: an invocation in which a collaborator call failed ends
\* with a reply and returns false (a handler) or a text (the provider).
C9_FailureGivesReplyAndFalse ==
    \A p \in Procs :
        LET s == inv[p]
        IN (s.flow \in Flows /\ s.pc = "done" /\ Failures(s) # {})
            => /\ Answers(s)
               /\ s.flow \in Handlers => s.returned = "false"
               /\ s.flow = "PROVIDER" => s.returned = "text"

\* the failures a handler absorbs and may still return true after: the
\* wallet lookup of provisioning, the token read of the balance query and
\* the preflight read of the token transfer
Absorbed(s, i) ==
    \/ s.flow = "CREATE_WALLET" /\ i = 1
    \/ s.flow = "CHECK_BALANCE" /\ s.trace[i].op = "readContract"
    \/ s.flow = "TRANSFER_ERC20" /\ s.trace[i].op = "readContract"

\* C9 amended: no invocation ever ends by throwing; one in which a
\* collaborator call failed ends with a reply and returns a text (the
\* provider) or a boolean (a handler), which is false unless every failure
\* was one the handler absorbs.
C9_FailureNeverEscapes ==
    \A p \in Procs :
        LET s == inv[p]
        IN /\ s.returned # "threw"
           /\ (s.flow \in Flows /\ s.pc = "done" /\ Failures(s) # {})
                => /\ Answers(s)
                   /\ s.flow = "PROVIDER" => s.returned = "text"
                   /\ s.flow \in Handlers => s.returned \in {"true", "false"}
                   /\ (\E i \in Failures(s) : ~Absorbed(s, i))
                        => s.returned \in {"false", "text"}

C9_Witness ==
    \E p \in Procs :
        /\ inv[p].flow = "TRANSFER_MNT"
        /\ inv[p].pc = "done"
        /\ "sendTransaction" \in FailedOps(inv[p])
        /\ LastReply(inv[p]).kind = "Error"
        /\ inv[p].returned = "false"

(***************************************************************************)
(* C10: preflight and confirmation failures of a transfer.                 *)
(***************************************************************************)
Count(s, ops) == Cardinality({i \in 1..Len(s.trace) : s.trace[i].op \in ops})

InsufficientRead(s) == s.balance # Null /\ BigLess(s.balance, s.value)

NothingBroadcast(s) ==
    /\ Ops(s) \cap Broadcasts = {}
    /\ TxsOf(s) = {}

\* the invocation ended at the preflight step
EndsAtPreflight(s) ==
    /\ NothingBroadcast(s)
    /\ s.pc = "done"
    /\ s.returned = "false"
    /\ Ops(s) \cap {"waitForTransactionReceipt", "createMemory"} = {}

\* after a failed confirmation wait: false, nothing persisted, one
\* broadcast and one wait in all
ConfirmationFailureIsTerminal(s) ==
    "waitForTransactionReceipt" \in FailedOps(s)
        => /\ s.pc = "done"
           /\ s.returned = "false"
           /\ LastReply(s).kind = "Error"
           /\ "createMemory" \notin Ops(s)
           /\ MemoriesOf(s) = {}
           /\ Count(s, Broadcasts) = 1
           /\ Count(s, {"waitForTransactionReceipt"}) = 1
           /\ Cardinality(TxsOf(s)) = 1

\* C10 as stated: after insufficient funds or a failed balance read nothing
\* is broadcast in the invocation; after a failed confirmation wait nothing
\* is persisted, false is returned and nothing is retried.
C10_PreflightFailureIsTerminal ==
    \A p \in Procs :
        LET s == inv[p]
        IN s.flow \in Transfers
            => /\ (InsufficientRead(s) \/ FailedOps(s) \cap ChainReads # {})
                    => NothingBroadcast(s)
               /\ ConfirmationFailureIsTerminal(s)

\* the step after the failed token balance read is the processing notice
ProceedsToBroadcast(s) ==
    \A i \in Failures(s) :
        s.trace[i].op = "readContract"
            => /\ Len(s.trace) > i
               /\ s.trace[i + 1].note = "Processing"
               /\ s.pc # "te_balanceOf"
               /\ s.pc = "done" => "writeContract" \in Ops(s)

\* C10 amended: insufficient funds end both transfer flows before the
\* broadcast and so does a failed balance read in the native flow; in the
\* token flow a failed balance read is ignored and the invocation goes on
\* to the broadcast.  A failed confirmation wait is terminal in both.
C10_PreflightFailureIsTerminalExceptTokenRead ==
    \A p \in Procs :
        LET s == inv[p]
        IN s.flow \in Transfers
            => /\ (InsufficientRead(s) \/ "getBalance" \in FailedOps(s))
                    => EndsAtPreflight(s)
               /\ s.flow = "TRANSFER_ERC20" => ProceedsToBroadcast(s)
               /\ ConfirmationFailureIsTerminal(s)

C10_Witness ==
    \E p \in Procs :
        /\ inv[p].flow = "TRANSFER_ERC20"
        /\ "readContract" \in FailedOps(inv[p])
        /\ "waitForTransactionReceipt" \in FailedOps(inv[p])
        /\ Cardinality(TxsOf(inv[p])) = 1

(***************************************************************************)
(* C11: one transaction per transfer, no retry, none from other flows.     *)
(***************************************************************************)
AtMostOnce(s, ops) == \A op \in ops : Count(s, {op}) <= 1

BroadcastSucceeded(s) ==
    \E i \in 1..Len(s.trace) : s.trace[i].op \in Broadcasts /\ s.trace[i].ok

\* no step that failed is run again later in the invocation
NeverRetried(s) ==
    \A i \in Failures(s) : \A j \in (i + 1)..Len(s.trace) :
        s.trace[j].op # s.trace[i].op

\* C11: a transfer invocation calls the broadcast at most once and exactly
\* once when it has passed preflight (the processing notice was sent) and has
\* returned; it puts at most one transaction on the chain, one exactly when
\* the broadcast succeeded; no chain call or memory write is made twice and
\* no failed step is run again; the other flows never broadcast and no
\* transaction belongs to them.
C11_AtMostOneBroadcastNoRetry ==
    /\ \A p \in Procs :
        LET s == inv[p]
        IN IF s.flow \in Transfers
           THEN /\ Count(s, Broadcasts) <= 1
                /\ Cardinality(TxsOf(s)) = (IF BroadcastSucceeded(s) THEN 1 ELSE 0)
                /\ (s.pc = "done" /\ "Processing" \in ReplyKinds(s))
                        => Count(s, Broadcasts) = 1
                /\ Count(s, Broadcasts) = 1 => "Processing" \in ReplyKinds(s)
                /\ AtMostOnce(s, Broadcasts \cup ChainReads
                                 \cup {"waitForTransactionReceipt", "createMemory"})
                /\ NeverRetried(s)
           ELSE /\ Ops(s) \cap Broadcasts = {}
                /\ TxsOf(s) = {}
                /\ s.txHash = 0
    /\ \A i, j \in 1..Len(chainTxs) :
            chainTxs[i].inv = chainTxs[j].inv => i = j

C11_Witness ==
    \E p \in Procs :
        /\ inv[p].flow = "TRANSFER_MNT"
        /\ "sendTransaction" \in FailedOps(inv[p])
        /\ inv[p].pc = "done"
        /\ Count(inv[p], Broadcasts) = 1
        /\ "Processing" \in ReplyKinds(inv[p])

(***************************************************************************)
(* C12: one InteractionRecord per completed invocation, after the effect.  *)
(***************************************************************************)
\* indices of the calls of the given operations that succeeded
Succeeded(s, ops) == {i \in 1..Len(s.trace) : s.trace[i].op \in ops /\ s.trace[i].ok}

\* the externally observable effect of the flow precedes step i of the trace
EffectBefore(s, i) ==
    CASE s.flow = "CREATE_WALLET" ->
            /\ \E j, k \in Succeeded(s, {"cache.set"}) : j < k /\ k < i
            /\ HasRecord(s.userId)
      [] s.flow \in Transfers ->
            /\ \E j \in Succeeded(s, Broadcasts) :
               \E k \in Succeeded(s, {"waitForTransactionReceipt"}) : j < k /\ k < i
            /\ Cardinality(TxsOf(s)) = 1
      [] s.flow = "CHECK_BALANCE" ->
            /\ \E j \in Succeeded(s, {"getBalance"}) :
               \E k \in 1..Len(s.trace) : /\ s.trace[k].op = "readContract"
                                          /\ j < k /\ k < i
      [] OTHER -> FALSE

\* the records of the invocation were written by its createMemory calls,
\* each after the effect
RecordsFollowEffect(s) ==
    /\ Cardinality(MemoriesOf(s)) = Cardinality(Succeeded(s, {"createMemory"}))
    /\ \A i \in Succeeded(s, {"createMemory"}) : EffectBefore(s, i)
    /\ \A m \in MemoriesOf(s) : /\ memories[m].action = s.flow
                                /\ memories[m].userId = s.userId

\* memories only grows, at its end
AppendOnly ==
    /\ Len(memories') >= Len(memories)
    /\ SubSeq(memories', 1, Len(memories)) = memories

\* the provisioning invocation that found the stored wallet
FoundExistingWallet(s) ==
    s.flow = "CREATE_WALLET" /\ "AlreadyHasWallet" \in ReplyKinds(s)

\* C12 as stated: every invocation that returned true has created exactly
\* one InteractionRecord, after its effect; records are only appended.
C12_OneRecordPerCompletedInvocation ==
    /\ [](\A p \in Procs :
            LET s == inv[p]
            IN /\ RecordsFollowEffect(s)
               /\ s.returned = "true" => Cardinality(MemoriesOf(s)) = 1)
    /\ [][AppendOnly]_vars

\* C12 amended: every invocation that returned true has created exactly one
\* InteractionRecord, after its effect, except the provisioning invocation
\* that found the user's stored wallet, which returns true and creates none;
\* records are only appended.
C12_OneRecordUnlessWalletExisted ==
    /\ [](\A p \in Procs :
            LET s == inv[p]
            IN /\ RecordsFollowEffect(s)
               /\ s.returned = "true"
                    => Cardinality(MemoriesOf(s)) =
                            (IF FoundExistingWallet(s) THEN 0 ELSE 1))
    /\ [][AppendOnly]_vars

C12_Witness ==
    \E p \in Procs :
        /\ inv[p].flow \in Transfers
        /\ inv[p].returned = "true"
        /\ Cardinality(MemoriesOf(inv[p])) = 1
        /\ Len(memories) = 2

(***************************************************************************)
(* C13: two interleaved provisioning invocations for one user.             *)
(***************************************************************************)
\* the invocation generated a key, wrote both entries and replied with the
\* new address
CreatedWallet(s) ==
    /\ s.flow = "CREATE_WALLET"
    /\ s.returned = "true"
    /\ "generatePrivateKey" \in Ops(s)
    /\ Cardinality(Succeeded(s, {"cache.set"})) = 2
    /\ LastReply(s).kind = "WalletCreated"
    /\ LastReply(s).address = s.walletData.address

StoredWallet(userId) == JSONparse(cache.user_wallet[userId])

\* C13: when two provisioning invocations for the same user are in flight
\* together and both have created a wallet, they hold different keys, the
\* stored record is the one of a single invocation, so the address replied
\* by the other one is not the stored wallet, and the reverse index maps
\* both addresses to the user.
C13_BothCreateOneSurvives ==
    \A p, q \in Procs :
        LET s == inv[p]
            t == inv[q]
        IN (p # q /\ s.userId = t.userId /\ CreatedWallet(s) /\ CreatedWallet(t))
            => /\ s.walletData.privateKey # t.walletData.privateKey
               /\ s.walletData.address # t.walletData.address
               /\ HasRecord(s.userId)
               /\ StoredWallet(s.userId) \in {s.walletData, t.walletData}
               /\ \E r \in {s, t} :
                    LastReply(r).address # StoredWallet(s.userId).address
               /\ \A r \in {s, t} :
                    /\ CacheHas("address_to_user", r.walletData.address)
                    /\ cache.address_to_user[r.walletData.address] = s.userId

\* both lookups succeeded and found nothing, so neither invocation had
\* written when the other one looked; the invocation started first has lost
C13_Witness ==
    \E p, q \in Procs :
        LET s == inv[p]
            t == inv[q]
        IN /\ s.id = 1 /\ t.id = 2 /\ started = 2
           /\ s.userId = t.userId
           /\ CreatedWallet(s) /\ CreatedWallet(t)
           /\ s.trace[1].op = "cache.get" /\ s.trace[1].ok
           /\ t.trace[1].op = "cache.get" /\ t.trace[1].ok
           /\ StoredWallet(s.userId) = t.walletData
           /\ LastReply(s).address # StoredWallet(s.userId).address
           /\ DOMAIN cache.address_to_user =
                {s.walletData.address, t.walletData.address}

(***************************************************************************)
(* C14: two interleaved transfers of one user against one balance.         *)
(***************************************************************************)
\* a + b on bigints
BigAdd(a, b) ==
    LET n == (IF Len(a) > Len(b) THEN Len(a) ELSE Len(b)) + 1
        x == Rep("0", n - Len(a)) \o a
        y == Rep("0", n - Len(b)) \o b
        carry[i \in 0..n] ==
            IF i = 0 THEN 0
            ELSE (DigitVal(x[n - i + 1]) + DigitVal(y[n - i + 1]) + carry[i - 1]) \div 10
    IN StripLeadingZeros(
          [k \in 1..n |->
              DigitChars[((DigitVal(x[k]) + DigitVal(y[k]) + carry[n - k]) % 10) + 1]])

\* both spend from the same wallet, both read the same balance, each
\* amount is covered by it and the two together are not
Overspend(s, t) ==
    /\ s.flow \in Transfers /\ t.flow = s.flow
    /\ s.userId = t.userId
    /\ s.provider.address = t.provider.address
    /\ s.balance # Null /\ t.balance = s.balance
    /\ ~BigLess(s.balance, s.value)
    /\ ~BigLess(t.balance, t.value)
    /\ BigLess(s.balance, BigAdd(s.value, t.value))

\* the invocation went past preflight to its broadcast call
ReachedBroadcast(s) ==
    /\ "Processing" \in ReplyKinds(s)
    /\ "InsufficientBalance" \notin ReplyKinds(s)
    /\ s.pc \in {"tm_sendTransaction", "te_writeContract"} \/ Count(s, Broadcasts) = 1
    /\ Cardinality(TxsOf(s)) = (IF BroadcastSucceeded(s) THEN 1 ELSE 0)

\* C14: two transfer invocations of one user that read the same balance,
\* each asking for no more than it and together for more, both pass
\* preflight and reach their broadcast call; the transactions of both go to
\* the chain when the calls succeed: nothing serialises the two.
C14_BothPassPreflight ==
    \A p, q \in Procs :
        (p # q /\ Overspend(inv[p], inv[q]))
            => /\ ReachedBroadcast(inv[p])
               /\ ReachedBroadcast(inv[q])
               /\ Len(chainTxs) >= Cardinality(TxsOf(inv[p])) + Cardinality(TxsOf(inv[q]))

\* both read the balance before either had broadcast, and both
\* transactions are on the chain
C14_Witness ==
    \E p, q \in Procs :
        /\ p # q
        /\ Overspend(inv[p], inv[q])
        /\ inv[p].flow = "TRANSFER_MNT"
        /\ inv[p].txsBefore = 0 /\ inv[q].txsBefore = 0
        /\ Cardinality(TxsOf(inv[p])) = 1 /\ Cardinality(TxsOf(inv[q])) = 1
        /\ chainTxs[1].from = chainTxs[2].from
        /\ BigLess(inv[p].balance, BigAdd(chainTxs[1].value, chainTxs[2].value))

(***************************************************************************)
(* C15: userHasWallet.                                                     *)
(***************************************************************************)
\* the await of userHasWallet in each flow, and where the flow goes when the
\* answer is true
HasWalletAwaits ==
    {"cw_userHasWallet", "tm_userHasWallet", "te_userHasWallet",
     "cb_userHasWallet", "wp_userHasWallet"}

HasWalletTrueBranch ==
    {"cw_getUserWallet", "tm_initUserWalletProvider", "te_initUserWalletProvider",
     "cb_initUserWalletProvider", "wp_initUserWalletProvider"}

\* the replies of the branch taken when the answer is false
HasWalletFalseReplies == {"Creating", "NeedWallet", "NoWallet"}

\* the step of process p is the return of userHasWallet
HasWalletReturns(p) == inv[p].pc \in HasWalletAwaits /\ inv'[p] # inv[p]

\* C15: at every return of userHasWallet, in every flow, the answer is true
\* exactly when the cache lookup succeeded and the cache holds a record under
\* user_wallet:{userId}; a failed lookup gives false, also when the record
\* exists, and nothing is raised: the flow continues on the branch of the
\* answer.
C15_HasWalletIffRecordAndLookupOk ==
    [][\A p \in Procs :
        HasWalletReturns(p) =>
            LET s == inv[p]
                t == inv'[p]
                lookup == t.trace[Len(s.trace) + 1]
                answer == t.pc \in HasWalletTrueBranch
            IN /\ lookup.op = "cache.get"
               /\ answer <=> (lookup.ok /\ HasRecord(s.userId))
               /\ ~lookup.ok => ~answer
               /\ t.returned # "threw"
               /\ ~answer => /\ Len(t.replies) = 1
                             /\ t.replies[1].kind \in HasWalletFalseReplies
               /\ cache' = cache]_vars

\* the lookup failed for a user whose record is stored
C15_Witness ==
    \E p \in Procs :
        /\ inv[p].flow \in Transfers
        /\ HasRecord(inv[p].userId)
        /\ Len(inv[p].trace) = 2
        /\ inv[p].trace[1].op = "cache.get" /\ ~inv[p].trace[1].ok
        /\ LastReply(inv[p]).kind = "NeedWallet"
        /\ inv[p].returned = "false"

(***************************************************************************)
(* C16: getUserWallet.                                                     *)
(***************************************************************************)
\* the awaits of getUserWallet (directly, or inside initUserWalletProvider)
GetWalletAwaits ==
    {"cw_getUserWallet", "tm_initUserWalletProvider", "te_initUserWalletProvider",
     "cb_initUserWalletProvider", "wp_initUserWalletProvider"}

\* the replies of the flows when getUserWallet returned null
NullWalletReplies == {"WalletUnreadable", "WalletAccessFailed", "WalletAccessProblem"}

GetWalletReturns(p) == inv[p].pc \in GetWalletAwaits /\ inv'[p] # inv[p]

\* no record is to be had: nothing stored, the lookup failed or the stored
\* text is not JSON
NoWalletToReturn(userId, lookup) ==
    \/ ~lookup.ok
    \/ ~HasRecord(userId)
    \/ cache.user_wallet[userId].type = "garbled"

\* the invocation carries on with exactly this address and private key
ReturnedWallet(t, wallet) ==
    IF t.flow = "CREATE_WALLET"
    THEN /\ LastReply(t).kind = "AlreadyHasWallet"
         /\ LastReply(t).address = wallet.address
    ELSE /\ t.provider.privateKey = wallet.privateKey
         /\ t.provider.address = privateKeyToAccount(wallet.privateKey).address
         /\ t.provider.address = wallet.address

\* C16: at every return of getUserWallet the result is null exactly when no
\* value is stored, the lookup failed or the stored text cannot be decoded;
\* otherwise it is the stored address and private key, the same for the
\* JSON text and for the structured object.
C16_GetWalletDecodesBothForms ==
    [][\A p \in Procs :
        GetWalletReturns(p) =>
            LET s == inv[p]
                t == inv'[p]
                lookup == t.trace[Len(s.trace) + 1]
            IN /\ lookup.op = "cache.get"
               /\ t.returned # "threw"
               /\ IF NoWalletToReturn(s.userId, lookup)
                  THEN /\ t.pc = "done"
                       /\ LastReply(t).kind \in NullWalletReplies
                       /\ t.provider = NullWallet
                  ELSE /\ ReplyKinds(t) \cap NullWalletReplies = {}
                       /\ ReturnedWallet(t, [address |-> StoredWallet(s.userId).address,
                                             privateKey |-> StoredWallet(s.userId).privateKey])
                       /\ cache.user_wallet[s.userId].type \in {"string", "object"}]_vars

\* the wallet was returned from the structured form
C16_Witness ==
    \E p \in Procs :
        /\ inv[p].flow = "CHECK_BALANCE"
        /\ HasRecord(inv[p].userId)
        /\ cache.user_wallet[inv[p].userId].type = "object"
        /\ inv[p].provider.privateKey = ProvisionedWalletData.privateKey
        /\ inv[p].pc = "cb_provider_getBalance"

(***************************************************************************)
(* C17: the reverse lookup and the case of the address.                    *)
(***************************************************************************)
\* the users whose successfully saved wallet has this address, whatever the
\* case of its letters
OwnersIgnoringCase(address) ==
    {pair[1] : pair \in {q \in savedOk : toLowerCase(q[2]) = toLowerCase(address)}}

\* C17: a lookup whose cache read succeeds returns the owner of a saved
\* wallet for the address in its mixed-case form and in its lower-case
\* form (the argument is lower-cased and so is the key of the entry).
C17_LookupIgnoresCase ==
    \A p \in Procs :
        LET s == inv[p]
        IN (s.flow = "RESOLVE" /\ s.pc = "done" /\ Failures(s) = {})
            => s.resolved \in OwnersIgnoringCase(s.address)

(***************************************************************************)
(* C18: intent extraction.                                                 *)
(***************************************************************************)
HexChars == Range(DigitChars) \cup Range(LowerHexLetters) \cup Range(UpperHexLetters)

\* `0x` at position i followed by a run of exactly 40 hexadecimal characters
WellFormedAddressAt(text, i) ==
    /\ i + 1 <= Len(text)
    /\ text[i] = "0"
    /\ text[i + 1] = "x"
    /\ RunEnd(text, i + 2, HexChars) = i + 1 + AddrHexLen

\* the first well-formed address of the text, or absence
FirstWellFormedAddress(text) ==
    IF \E i \in 1..Len(text) : WellFormedAddressAt(text, i)
    THEN LET i == CHOOSE k \in 1..Len(text) :
                    /\ WellFormedAddressAt(text, k)
                    /\ \A m \in 1..(k - 1) : ~WellFormedAddressAt(text, m)
         IN SubSeq(text, i, i + 1 + AddrHexLen)
    ELSE Null

\* the first index b <= i + 1 such that s[b..i] are all in the class
RunStart(s, i, class) ==
    CHOOSE b \in 1..(i + 1) :
        /\ \A j \in b..i : s[j] \in class
        /\ (b = 1 \/ s[b - 1] \notin class)

\* the decimal literal that ends right before the symbol at position j
\* (blanks between them allowed), or absence
LiteralBefore(text, j) ==
    LET e == RunStart(text, j - 1, SpaceChars) - 1
        d == RunStart(text, e, Range(DigitChars))
        b == IF d > 2 /\ d <= e /\ text[d - 1] = "."
                  /\ RunStart(text, d - 2, Range(DigitChars)) <= d - 2
             THEN RunStart(text, d - 2, Range(DigitChars))
             ELSE d
    IN IF d <= e THEN SubSeq(text, b, e) ELSE Null

SymbolAt(text, j, symbol) ==
    /\ j + Len(symbol) - 1 <= Len(text)
    /\ toLowerCase(SubSeq(text, j, j + Len(symbol) - 1)) = toLowerCase(symbol)

\* the literal before the first occurrence of the symbol that has one
LiteralBeforeSymbol(text, symbol) ==
    LET at == {j \in 1..Len(text) : SymbolAt(text, j, symbol)
                                        /\ LiteralBefore(text, j) # Null}
    IN IF at = {} THEN Null
       ELSE LiteralBefore(text, CHOOSE j \in at : \A k \in at : j <= k)

\* the transfer has parsed its message
Parsed(s) ==
    s.flow = "TRANSFER_MNT" /\ (s.to # Null \/ ReplyKinds(s) \cap {"NoAddress", "NoAmount"} # {})

\* C18: the destination a native transfer extracts is the first `0x`
\* followed by a run of exactly 40 hexadecimal characters, and absence when
\* the text has none (a shorter or a longer run gives absence, never a part
\* of it); the amount is the decimal literal right before the currency
\* symbol ("0.5" for the example message), and absence when there is none;
\* the result depends on the text alone.
C18_ExtractionExactOrAbsent ==
    \A p \in Procs :
        LET s == inv[p]
        IN Parsed(s)
            => /\ extractEthereumWalletAddress(s.text) = FirstWellFormedAddress(s.text)
               /\ extractAmount(s.text) = LiteralBeforeSymbol(s.text, SymMNT)
               /\ s.text = TextSendMNT => s.amountStr = <<"0", ".", "5">>
               /\ IF FirstWellFormedAddress(s.text) = Null
                  THEN LastReply(s).kind = "NoAddress" /\ s.to = Null
                  ELSE IF LiteralBeforeSymbol(s.text, SymMNT) = Null
                  THEN LastReply(s).kind = "NoAmount" /\ s.to = Null
                  ELSE /\ s.to = FirstWellFormedAddress(s.text)
                       /\ s.amountStr = LiteralBeforeSymbol(s.text, SymMNT)

(***************************************************************************)
(* C19: the balance query after a successful provisioning.                 *)
(***************************************************************************)
\* the completed provisioning invocations of the user that created a wallet
\* and replied with its address
Created(userId) ==
    {i \in 1..Len(prov[userId]) : /\ prov[userId][i].returned = "true"
                                  /\ prov[userId][i].generated}

\* a balance query about the caller's own wallet, by a user for whom a
\* provisioning invocation has succeeded
OwnQueryAfterProvisioning(s) ==
    /\ s.flow = "CHECK_BALANCE"
    /\ s.userId # NoUserId
    /\ extractEthereumWalletAddress(s.text) = Null
    /\ Created(s.userId) # {}

NoWalletReplies == {"NoWallet", "WalletAccessProblem"}

\* the query has returned the report of the native balance of the address
ReportsNativeBalanceOf(s, addresses) ==
    /\ LastReply(s).kind = "OwnBalances"
    /\ LastReply(s).address \in addresses
    /\ LastReply(s).balances.MNT # Null
    /\ "getBalance" \in Ops(s)

StoredUnlessRewritten(userId) ==
    \A i \in Created(userId) :
        (\A j \in (i + 1)..Len(prov[userId]) : ~prov[userId][j].wrote)
            => prov[userId][i].addresses = {StoredWallet(userId).address}

LineSymbols(reply) ==
    LET balanceLines == SelectSeq(reply.lines, LAMBDA line : line.label = "balance")
    IN [i \in 1..Len(balanceLines) |-> balanceLines[i].symbol]

KeyIndex(symbol) == CHOOSE k \in 1..Len(TokenKeys) : TokenKeys[k] = symbol

NativeFirstThenRegistryOrder(symbols) ==
    /\ \A i \in 1..Len(symbols) : \E k \in 1..Len(TokenKeys) : TokenKeys[k] = symbols[i]
    /\ \A i, j \in 1..Len(symbols) :
          i < j => /\ ~(/\ isERC20Token(TokenBySymbol(symbols[i]))
                        /\ ~isERC20Token(TokenBySymbol(symbols[j])))
                   /\ (/\ isERC20Token(TokenBySymbol(symbols[i]))
                       /\ isERC20Token(TokenBySymbol(symbols[j])))
                        => KeyIndex(symbols[i]) < KeyIndex(symbols[j])

\* every token of the registry has its line, showing the reported value
ShowsEveryBalance(reply) ==
    /\ \A k \in 1..Len(TokenKeys) : \E i \in 1..Len(LineSymbols(reply)) :
          LineSymbols(reply)[i] = TokenKeys[k]
    /\ \A i \in 1..Len(reply.lines) :
          reply.lines[i].label = "balance"
            => reply.lines[i].value = (IF reply.lines[i].symbol = SymMNT
                                       THEN reply.balances.MNT
                                       ELSE reply.balances.AISHOP)

TokenFetchFailed(reply) == reply.balances.AISHOP \in {TokenErrorMarker, ProviderTokenError}

\* C20: in every balance report, of either branch of the balance action and
\* of either branch of the wallet provider, the MNT line precedes the line
\* of every contract-backed token and the token lines are in the order the
\* registry defines them, whether the token fetch succeeded or failed.
C20_NativeLineFirstThenRegistryOrder ==
    \A p \in Procs : \A i \in 1..Len(inv[p].replies) :
        LET reply == inv[p].replies[i]
        IN reply.kind \in Reports
            => /\ NativeFirstThenRegistryOrder(LineSymbols(reply))
               /\ ShowsEveryBalance(reply)

C20_Witness ==
    \E p \in Procs : \E i \in 1..Len(inv[p].replies) :
        LET reply == inv[p].replies[i]
        IN /\ reply.kind \in Reports
           /\ TokenFetchFailed(reply)
           /\ LineSymbols(reply) = TokenKeys

(***************************************************************************)
(* C21: the order of the steps of a transfer.                              *)
(***************************************************************************)
ParsingFailureReplies == {"NoAddress", "NoAmount", "NoTokenAmount", "NoTokenConfig"}

\* the events of the invocation at which the predicate holds
EventsWhere(s, Holds(_)) == {i \in 1..Len(s.trace) : Holds(s.trace[i])}

WalletChecks(s) == EventsWhere(s, LAMBDA e : e.op = "cache.get")
ParsingFailures(s) ==
    EventsWhere(s, LAMBDA e : e.op = "callback" /\ e.note \in ParsingFailureReplies)
BalanceReads(s) == EventsWhere(s, LAMBDA e : e.op \in ChainReads)
BroadcastEvents(s) == EventsWhere(s, LAMBDA e : e.op \in Broadcasts)
ConfirmationWaits(s) == EventsWhere(s, LAMBDA e : e.op = "waitForTransactionReceipt")
RecordWrites(s) == EventsWhere(s, LAMBDA e : e.op = "createMemory")
SuccessReplies(s) ==
    EventsWhere(s, LAMBDA e : e.op = "callback" /\ e.note = "TransferCompleted")

\* every event of `later` comes after a successful event of `earlier`
Precedes(s, earlier, later) ==
    \A j \in later : \E i \in earlier : i < j /\ s.trace[i].ok

\* every event of `later` comes after an attempted event of `earlier`
AttemptPrecedes(s, earlier, later) ==
    \A j \in later : \E i \in earlier : i < j

StepsInOrder(s) ==
    /\ Precedes(s, WalletChecks(s), ParsingFailures(s))
    /\ Cardinality(WalletChecks(s)) = 2 \/ ParsingFailures(s) = {}
    /\ AttemptPrecedes(s, BalanceReads(s), BroadcastEvents(s))
    /\ Precedes(s, WalletChecks(s), BalanceReads(s))
    /\ Precedes(s, BroadcastEvents(s), ConfirmationWaits(s))
    /\ Precedes(s, ConfirmationWaits(s), RecordWrites(s))
    /\ Precedes(s, RecordWrites(s), SuccessReplies(s))
    /\ \A j \in SuccessReplies(s) :
          /\ j = Len(s.trace)
          /\ s.trace[j - 1].op = "createMemory"
          /\ s.pc = "done" /\ s.returned = "true"
    /\ \A i \in BroadcastEvents(s) : \A j \in BalanceReads(s) : j < i
    /\ \A i \in ConfirmationWaits(s) : \A j \in BroadcastEvents(s) : j < i
    /\ \A i \in RecordWrites(s) : \A j \in ConfirmationWaits(s) : j < i

\* C21: in every transfer invocation the wallet check precedes any parsing
\* failure reply, the balance read precedes the broadcast, the broadcast
\* precedes the confirmation wait, the InteractionRecord is written after
\* the confirmation has returned and before the success reply, and the
\* success reply is the last event of the invocation.
C21_TransferStepsInOrder ==
    \A p \in Procs : inv[p].flow \in Transfers => StepsInOrder(inv[p])

C21_Witness ==
    \E p \in Procs :
        /\ inv[p].flow \in Transfers
        /\ SuccessReplies(inv[p]) # {}
        /\ BalanceReads(inv[p]) # {} /\ BroadcastEvents(inv[p]) # {}
        /\ ConfirmationWaits(inv[p]) # {} /\ RecordWrites(inv[p]) # {}
        /\ MemoriesOf(inv[p]) # {} /\ TxsOf(inv[p]) # {}

(***************************************************************************)
(* C22: the order of the events of provisioning.                           *)
(***************************************************************************)
StoreWrites(s) == EventsWhere(s, LAMBDA e : e.op = "cache.set")
StoreWritesDone(s) == EventsWhere(s, LAMBDA e : e.op = "cache.set" /\ e.ok)
CreationReplies(s) ==
    EventsWhere(s, LAMBDA e : e.op = "callback" /\ e.note = "WalletCreated")

GeneratesAndPersists(s) ==
    s.flow = "CREATE_WALLET" /\ "generatePrivateKey" \in Ops(s)

ReturnsExisting(s) ==
    /\ s.flow = "CREATE_WALLET"
    /\ s.pc = "cw_getUserWallet" \/ "AlreadyHasWallet" \in ReplyKinds(s)

HasReverseEntry(s) ==
    /\ ReverseKey(s.walletData) \in DOMAIN cache.address_to_user
    /\ cache.address_to_user[ReverseKey(s.walletData)] = s.userId

\* forward write first, reverse write second, then the record, then the reply
PersistsInOrder(s) ==
    /\ Cardinality(StoreWritesDone(s)) >= 1
          => HasRecord(s.userId) /\ StoredWallet(s.userId).address = s.walletData.address
    /\ Cardinality(StoreWritesDone(s)) < 2 => ~HasReverseEntry(s)
    /\ Cardinality(StoreWritesDone(s)) = 2 => HasReverseEntry(s)
    /\ Cardinality(StoreWrites(s)) <= 2
    /\ \A j \in RecordWrites(s) :
          /\ Cardinality(StoreWritesDone(s)) = 2
          /\ \A i \in StoreWrites(s) : i < j
    /\ MemoriesOf(s) # {} => \E j \in RecordWrites(s) : s.trace[j].ok
    /\ \A j \in CreationReplies(s) :
          /\ j = Len(s.trace)
          /\ s.trace[j - 1].op = "createMemory" /\ s.trace[j - 1].ok
          /\ Cardinality(StoreWritesDone(s)) = 2
          /\ Cardinality(MemoriesOf(s)) = 1
          /\ \A m \in MemoriesOf(s) : memories[m].address = s.walletData.address
          /\ LastReply(s).address = s.walletData.address
          /\ s.returned = "true"

TouchesNothing(s) ==
    /\ Ops(s) \cap {"generatePrivateKey", "cache.set", "createMemory"} = {}
    /\ MemoriesOf(s) = {}
    /\ s.walletData = NullWalletData

\* a step of an invocation on the ReturnExisting path
ReturnExistingStep(p) == inv[p].pc = "cw_getUserWallet" /\ inv'[p] # inv[p]

\* C22: on the GenerateAndPersist path the forward record is written, then
\* the reverse index, then the InteractionRecord, then the success reply
\* carrying the new address, which is emitted only if the three writes
\* succeeded; on the ReturnExisting path no key is generated and neither the
\* store nor the memory is written.
C22_ProvisioningEventsInOrder ==
    /\ [](\A p \in Procs :
            /\ GeneratesAndPersists(inv[p]) => PersistsInOrder(inv[p])
            /\ ReturnsExisting(inv[p]) => TouchesNothing(inv[p])
            /\ inv[p].flow = "CREATE_WALLET"
                  => GeneratesAndPersists(inv[p]) \/ CreationReplies(inv[p]) = {})
    /\ [][\A p \in Procs :
            ReturnExistingStep(p) => UNCHANGED <<cache, memories, keysGenerated>>]_vars

C22_Witness ==
    \E p \in Procs :
        /\ ReturnsExisting(inv[p])
        /\ "AlreadyHasWallet" \in ReplyKinds(inv[p])
        /\ \E i \in Created(inv[p].userId) :
              /\ LastReply(inv[p]).address \in prov[inv[p].userId][i].addresses
              /\ prov[inv[p].userId][i].failed = {}
        /\ \E m \in 1..Len(memories) :
              /\ memories[m].action = "CREATE_WALLET"
              /\ memories[m].address = LastReply(inv[p]).address

(***************************************************************************)
(* C23: the reverse-index write fails after the forward write.             *)
(***************************************************************************)
\* the invocation wrote the forward record and failed to write the reverse entry
ReverseWriteFailed(s) ==
    /\ s.flow = "CREATE_WALLET"
    /\ Cardinality(StoreWritesDone(s)) = 1
    /\ Cardinality(StoreWrites(s)) = 2

\* the completed provisioning invocations of the user that did so
PartialWrites(userId) ==
    {i \in 1..Len(prov[userId]) : /\ prov[userId][i].writes = 1
                                  /\ "cache.set" \in prov[userId][i].failed}

ReverseEntryOf(walletData) == ReverseKey(walletData) \in DOMAIN cache.address_to_user

\* the store operation reports failure, the flow replies that saving failed,
\* and the forward record stays without its reverse entry
LeftHalfWritten(s) ==
    /\ s.pc = "done" /\ s.returned = "false"
    /\ LastReply(s).kind = "SaveFailed"
    /\ <<s.userId, s.walletData.address>> \notin savedOk
    /\ MemoriesOf(s) = {}
    /\ HasRecord(s.userId)
    /\ StoredWallet(s.userId).address = s.walletData.address
    /\ ~ReverseEntryOf(s.walletData)

\* no provisioning invocation of the user has written since the i-th one
NotRewrittenSince(userId, i) ==
    /\ \A j \in (i + 1)..Len(prov[userId]) : prov[userId][j].writes = 0
    /\ \A p \in Procs :
          (inv[p].flow = "CREATE_WALLET" /\ inv[p].userId = userId)
              => StoreWritesDone(inv[p]) = {}

\* nothing rolls the forward record back and its reverse entry is never created
NeverRepaired(userId) ==
    \A i \in PartialWrites(userId) :
        /\ ~ReverseEntryOf(prov[userId][i].walletData)
        /\ HasRecord(userId)
        /\ NotRewrittenSince(userId, i)
              => StoredWallet(userId).address = prov[userId][i].walletData.address

ReturnsAsExisting(s, address) ==
    /\ s.returned = "true"
    /\ LastReply(s).kind = "AlreadyHasWallet"
    /\ LastReply(s).address = address
    /\ TouchesNothing(s)

LaterProvisioning(s) ==
    /\ s.flow = "CREATE_WALLET"
    /\ s.userId # NoUserId
    /\ PartialWrites(s.userId) # {}
    /\ s.pc = "done"

Unidentified(s) == s.flow \in Flows /\ s.userId = NoUserId

\* the identity-missing reply is the only event of the invocation
EndsWithIdentityMissing(s) ==
    /\ s.pc = "done"
    /\ s.returned = (IF s.flow = "PROVIDER" THEN "text" ELSE "false")
    /\ Len(s.replies) = 1 /\ s.replies[1].kind = "IdentityMissing"
    /\ Len(s.trace) = 1 /\ s.trace[1].op \in {"callback", "return"}
    /\ MemoriesOf(s) = {} /\ TxsOf(s) = {}
    /\ s.provider = NullWallet /\ s.walletData = NullWalletData

\* the step that starts an invocation without caller id
UnidentifiedStart(p) == inv[p].flow = "idle" /\ Unidentified(inv'[p])

\* C24: in every flow an invocation without user id ends with the
\* identity-missing reply before any cache read, chain call or memory
\* write, also a balance query whose text names an address.
C24_NoCallerIdEndsBeforeAnyCall ==
    /\ [](\A p \in Procs : Unidentified(inv[p]) => EndsWithIdentityMissing(inv[p]))
    /\ [][\A p \in Procs :
            UnidentifiedStart(p)
                => UNCHANGED <<cache, memories, chainTxs, keysGenerated, savedOk>>]_vars

C24_Witness ==
    \E p \in Procs :
        /\ Unidentified(inv[p])
        /\ inv[p].flow = "CHECK_BALANCE"
        /\ extractEthereumWalletAddress(inv[p].text) # Null
        /\ EndsWithIdentityMissing(inv[p])

(***************************************************************************)
(* C25: who writes the cache.                                              *)
(***************************************************************************)
ReadOnlyFlows == {"CHECK_BALANCE", "TRANSFER_MNT", "TRANSFER_ERC20", "PROVIDER"}

\* a step of an invocation of one of the flows, its start and its end included
StepOf(p, flows) ==
    /\ inv'[p] # inv[p]
    /\ inv[p].flow \in flows \/ inv'[p].flow \in flows

StoreWritePcs == {"cw_setForward", "cw_setReverse"}

\* C25: balance queries, native and token transfers and the wallet
\* provider leave every user_wallet and address_to_user entry unchanged,
\* whatever their outcome; the cache changes only in a store write of the
\* provisioning flow.
C25_OnlyProvisioningWritesCache ==
    [][/\ (\E p \in Procs : StepOf(p, ReadOnlyFlows)) => cache' = cache
       /\ cache' # cache
            => \E p \in Procs : /\ StepOf(p, {"CREATE_WALLET"})
                                /\ inv[p].pc \in StoreWritePcs]_vars

C25_Witness ==
    \E p \in Procs :
        /\ inv[p].flow \in Transfers
        /\ inv[p].pc = "done" /\ inv[p].returned = "true"
        /\ TxsOf(inv[p]) # {}
        /\ HasRecord(inv[p].userId)
        /\ StoredWallet(inv[p].userId).address = inv[p].provider.address
        /\ inv[p].userId \in {cache.address_to_user[a] : a \in DOMAIN cache.address_to_user}

(***************************************************************************)
(* C26: provisioning again after a failed lookup.                          *)
(***************************************************************************)
\* the completed provisioning invocations of the user that stored a record
StoredBefore(userId) == {i \in 1..Len(prov[userId]) : prov[userId][i].writes >= 1}

\* a provisioning invocation of a user with a record whose hasWallet lookup failed
LookupFailedWithRecord(s) ==
    /\ s.flow = "CREATE_WALLET"
    /\ s.userId # NoUserId
    /\ StoredBefore(s.userId) # {}
    /\ Len(s.trace) >= 1
    /\ s.trace[1].op = "cache.get" /\ ~s.trace[1].ok

SamePair(a, b) == a.address = b.address /\ a.privateKey = b.privateKey

\* the stored pair is the one this invocation generated, and none of the earlier ones
ReplacedByNewPair(s) ==
    /\ SamePair(StoredWallet(s.userId), s.walletData)
    /\ \A i \in StoredBefore(s.userId) :
          /\ prov[s.userId][i].walletData.address # s.walletData.address
          /\ prov[s.userId][i].walletData.privateKey # s.walletData.privateKey

\* every reverse entry written by an earlier invocation is still there
OldReverseEntriesKept(s) ==
    \A i \in StoredBefore(s.userId) :
        prov[s.userId][i].writes = 2
            => /\ ReverseEntryOf(prov[s.userId][i].walletData)
               /\ cache.address_to_user[ReverseKey(prov[s.userId][i].walletData)] = s.userId

\* C26: with one flow at a time, when the hasWallet lookup fails for a user
\* who has a WalletRecord the provisioning flow generates a new pair, and
\* when its writes succeed the stored key and address are the new pair
\* while the reverse index still maps the old address to the user.
C26_FailedLookupReplacesWallet ==
    \A p \in Procs :
        LET s == inv[p]
        IN LookupFailedWithRecord(s)
            => /\ oneAtATime
               /\ GeneratesAndPersists(s)
               /\ ~ReturnsExisting(s)
               /\ OldReverseEntriesKept(s)
               /\ Cardinality(StoreWritesDone(s)) >= 1 => ReplacedByNewPair(s)
               /\ Cardinality(StoreWritesDone(s)) = 2
                    => /\ HasReverseEntry(s)
                       /\ <<s.userId, s.walletData.address>> \in savedOk

C26_Witness ==
    \E p \in Procs :
        /\ LookupFailedWithRecord(inv[p])
        /\ Cardinality(StoreWritesDone(inv[p])) = 2
        /\ ReplacedByNewPair(inv[p])
        /\ \E i \in StoredBefore(inv[p].userId) :
              /\ prov[inv[p].userId][i].writes = 2
              /\ ReverseEntryOf(prov[inv[p].userId][i].walletData)
              /\ StoredWallet(inv[p].userId).address
                    # prov[inv[p].userId][i].walletData.address

(***************************************************************************)
(* C27: the generic transfer error after the broadcast.                    *)
(***************************************************************************)
\* the invocation ended in the catch block: generic error reply, false
EndedInGenericError(s) ==
    /\ s.pc = "done" /\ s.returned = "false"
    /\ LastReply(s).kind = "Error"

\* the confirmation wait failed, or the record write failed after it
FailedAfterBroadcast(s) ==
    /\ s.flow \in Transfers
    /\ FailedOps(s) \cap {"waitForTransactionReceipt", "createMemory"} # {}

\* the transaction of the invocation is on the chain
AlreadyBroadcast(s) ==
    /\ Cardinality(TxsOf(s)) = 1
    /\ \A t \in TxsOf(s) : /\ chainTxs[t].hash = s.txHash
                           /\ chainTxs[t].from = s.provider.address
                           /\ chainTxs[t].to = s.to
                           /\ chainTxs[t].value = s.value

\* no InteractionRecord holds the transaction
NoTransactionRecord(s) ==
    /\ MemoriesOf(s) = {}
    /\ \A m \in 1..Len(memories) :
          memories[m].payload = "transaction" => memories[m].transaction.hash # s.txHash

\* C27: a transfer that fails in the confirmation wait, or in the
\* InteractionRecord write after the confirmation, returns false with the
\* generic transfer-error reply although its transaction has been
\* broadcast, and no InteractionRecord with the transaction exists.
C27_GenericErrorAfterBroadcast ==
    \A p \in Procs :
        FailedAfterBroadcast(inv[p])
            => /\ EndedInGenericError(inv[p])
               /\ AlreadyBroadcast(inv[p])
               /\ NoTransactionRecord(inv[p])
               /\ "TransferCompleted" \notin ReplyKinds(inv[p])

C27_Witness ==
    \E p \in Procs :
        /\ inv[p].flow \in Transfers
        /\ "createMemory" \in FailedOps(inv[p])
        /\ EndedInGenericError(inv[p])
        /\ AlreadyBroadcast(inv[p])
        /\ NoTransactionRecord(inv[p])

(***************************************************************************)
(* C28: the receipt status.                                                *)
(***************************************************************************)
\* the confirmation wait of the transfer has returned a receipt
ReceiptReturned(s) ==
    /\ s.flow \in Transfers
    /\ \E i \in ConfirmationWaits(s) : s.trace[i].ok

TokenOf(s) == IF s.flow = "TRANSFER_MNT" THEN SymMNT ELSE SymAISHOP

\* the reply and the record the invocation gives for a receipt of this status
CompletedReply(s, status) ==
    [ReplyOf("TransferCompleted")
     EXCEPT !.requested = s.amountStr, !.address = s.provider.address, !.to = s.to,
            !.symbol = TokenOf(s), !.txHash = s.txHash,
            !.status = IF status = "success" THEN "Exitoso" ELSE "Pendiente"]

CompletedTransaction(s, status) ==
    [hash |-> s.txHash, from |-> s.provider.address, to |-> s.to,
     amount |-> s.amountStr,
     token |-> IF s.flow = "TRANSFER_MNT" THEN Null ELSE SymAISHOP,
     status |-> status]

Completed(s) ==
    /\ s.pc = "done" /\ s.returned = "true"
    /\ LastReply(s) = CompletedReply(s, s.receipt)
    /\ Cardinality(MemoriesOf(s)) = 1
    /\ \A m \in MemoriesOf(s) :
          /\ memories[m].payload = "transaction"
          /\ memories[m].transaction = CompletedTransaction(s, s.receipt)

\* C28 as stated: once the receipt has returned the invocation ends with
\* the record, the completed reply and true, whatever the receipt status.
C28_ReceiptAlwaysCompletes ==
    \A p \in Procs :
        (ReceiptReturned(inv[p]) /\ inv[p].pc = "done") => Completed(inv[p])

\* C28 amended: once the receipt has returned, the receipt status decides
\* nothing but the displayed status (Pendiente when it is not success) and
\* the status stored in the record: the invocation goes on to the
\* InteractionRecord write, and when that write succeeds it emits the
\* completed reply and returns true; when the write fails it ends in the
\* generic error reply and returns false, for either status.
C28_ReceiptStatusOnlyChangesStatusFields ==
    \A p \in Procs :
        LET s == inv[p]
        IN ReceiptReturned(s)
            => /\ s.receipt \in ReceiptStatuses
               /\ RecordWrites(s) = {} => s.pc \in {"tm_createMemory", "te_createMemory"}
               /\ (\E i \in RecordWrites(s) : s.trace[i].ok) => Completed(s)
               /\ (\E i \in RecordWrites(s) : ~s.trace[i].ok)
                    => EndedInGenericError(s) /\ NoTransactionRecord(s)
               /\ s.receipt # "success" /\ s.returned = "true"
                    => /\ LastReply(s).status = "Pendiente"
                       /\ [LastReply(s) EXCEPT !.status = "Exitoso"]
                             = CompletedReply(s, "success")

C28_Witness ==
    \E p \in Procs :
        /\ ReceiptReturned(inv[p])
        /\ inv[p].receipt = "reverted"
        /\ Completed(inv[p])
        /\ LastReply(inv[p]).status = "Pendiente"

(***************************************************************************)
(* C29: the intent predicates overlap.                                     *)
(***************************************************************************)
Offered(s) == s.flow = "VALIDATE"

\* the predicate of the action has been evaluated on the message and accepted it
Accepts(s, action) == action \in s.accepted
Rejects(s, action) == action \in s.evaluated \ s.accepted

MentionsWallet(text) == includes(toLowerCase(text), <<"w", "a", "l", "l", "e", "t">>)

TransferKeywords ==
    {<<"t", "r", "a", "n", "s", "f", "e", "r">>,
     <<"s", "e", "n", "d">>,
     <<"e", "n", "v", "i", "a", "r">>,
     <<"t", "r", "a", "n", "s", "f", "e", "r", "i", "r">>}

\* a transfer keyword, an address, an MNT amount and an AISHOP amount
NamesBothAmounts(text) ==
    /\ \E keyword \in TransferKeywords : includes(toLowerCase(text), keyword)
    /\ FirstWellFormedAddress(text) # Null
    /\ LiteralBeforeSymbol(text, SymMNT) # Null
    /\ LiteralBeforeSymbol(text, SymAISHOP) # Null

\* C29: every message accepted by the wallet-creation, the native-transfer
\* or the token-transfer predicate is accepted by the balance-check
\* predicate, which accepts any text containing `wallet` or an address; a
\* message with a transfer keyword, an address, an MNT amount and an AISHOP
\* amount is accepted by both transfer predicates.
C29_PredicatesOverlap ==
    \A p \in Procs :
        LET s == inv[p]
        IN Offered(s)
            => /\ \A action \in {"CREATE_WALLET", "TRANSFER_MNT", "TRANSFER_ERC20"} :
                      Accepts(s, action) => ~Rejects(s, "CHECK_BALANCE")
               /\ (MentionsWallet(s.text) \/ extractEthereumWalletAddress(s.text) # Null)
                      => ~Rejects(s, "CHECK_BALANCE")
               /\ NamesBothAmounts(s.text)
                      => ~Rejects(s, "TRANSFER_MNT") /\ ~Rejects(s, "TRANSFER_ERC20")

C29_Witness ==
    \E p \in Procs :
        /\ Offered(inv[p])
        /\ inv[p].pc = "done"
        /\ NamesBothAmounts(inv[p].text)
        /\ inv[p].accepted = {"CHECK_BALANCE", "TRANSFER_MNT", "TRANSFER_ERC20"}

(***************************************************************************)
(* C30: the explicit-address query and the process-level session.          *)
(***************************************************************************)
ExplicitAddressQuery(s) ==
    /\ s.flow = "CHECK_BALANCE"
    /\ s.userId # NoUserId
    /\ extractEthereumWalletAddress(s.text) # Null

\* the reply about the client is the only event: no read, no record
EndsWithoutClient(s) ==
    /\ s.pc = "done" /\ s.returned = "false"
    /\ Len(s.replies) = 1 /\ s.replies[1].kind = "ClientInitFailed"
    /\ Len(s.trace) = 1
    /\ Ops(s) \cap (ChainReads \cup {"cache.get", "createMemory"}) = {}
    /\ MemoriesOf(s) = {}

\* the query goes to the chain for the address of the text and never to the store
ProceedsWithoutOwnWallet(s) ==
    /\ s.address = extractEthereumWalletAddress(s.text)
    /\ s.provider = NullWallet
    /\ "cache.get" \notin Ops(s)
    /\ ReplyKinds(s) \cap (NoWalletReplies \cup {"ClientInitFailed"}) = {}
    /\ s.trace = << >> => s.pc = "cb_getBalance"
    /\ s.trace # << >> => s.trace[1].op = "getBalance"

====
